---- MODULE Spec2Model ----
(***************************************************************************)
(* A model of the OPENQASM parser (QasmParser) of qiskit/qasm/_qasmparser. *)
(* The token stream and the LALR driver are abstracted: a behaviour is a   *)
(* sequence of grammar reductions in an order the grammar allows, and each *)
(* action is the semantic action (the p_* method) of one production.       *)
(* Expressions are the exception: their tokens are shifted and reduced one *)
(* by one, so that the tree the grammar builds is computed, not assumed.   *)
(***************************************************************************)
EXTENDS Integers, Sequences, FiniteSets, TLC

VARIABLES
    parseDeb,        \* attribute self.parseDeb ("unset" until parse_debug sets it)
    status,          \* "new" | "parsing" | "returned" | "raised"
    err,             \* kind of the exception the last call raised, or "none"
    global_symtab,   \* self.global_symtab
    current_symtab,  \* self.current_symtab (a reference: the global dict or a local one)
    symbols,         \* self.symbols, the stack of saved scopes
    ctx,             \* position in the grammar: "top" | "params" | "body" | "exp"
    decl,            \* the gate / opaque declaration being reduced
    ifs,             \* the shifted "IF ( id == n )" prefixes awaiting their quantum_op, innermost first
    p0,              \* program[0] of the last reduction (the node just built)
    program,         \* children of the node.Program being built (their types)
    qasm,            \* self.qasm
    nstmt,           \* number of statements started so far, over all calls of parse
    lexer,           \* the tokens of the expression being parsed and the lexer's position
    symstack,        \* the parser's symbol stack while it parses an expression
    api,             \* the fake API object of the job-state tests (BaseFakeAPI or a subclass)
    reply            \* the outcome of the last call made on the fake API object

vars == <<parseDeb, status, err, global_symtab, current_symtab, symbols,
          ctx, decl, ifs, p0, program, qasm, nstmt, lexer, symstack, api, reply>>

----------------------------------------------------------------------------
(* Bounds of the model *)

MaxSize == 2     \* largest register size / index written in a program
MaxStmts == 2    \* statements started over all calls of parse (declaration programs)
MaxParams == 2   \* entries of one gate's argument list or bit list
MaxIf == 2       \* nested IF prefixes

Names == {"q", "r", "c", "g", "h", "sin"}
external_functions == {"sin", "cos", "tan", "exp", "ln", "sqrt"}

----------------------------------------------------------------------------
(* AST nodes: every node has a type tag, a name, an index and children *)

Node(t, n, i, ch) == [type |-> t, name |-> n, index |-> i, children |-> ch]
None == Node("none", "", -1, <<>>)
Id(n) == Node("id", n, -1, <<>>)
IndexedId(n, i) == Node("indexed_id", n, i, <<>>)
IntNode(i) == Node("int", "", i, <<>>)
List(t, ch) == Node(t, "", -1, ch)
size(list) == Len(list.children)

(* The gate / opaque declaration under reduction: GATE id gate_scope ... *)
Decl(t, n, form, na, nb) == [type |-> t, name |-> n, form |-> form, args |-> na, bits |-> nb]
NoDecl == Decl("none", "", 0, 0, 0)

(* The lexer's input while an expression is parsed: its tokens and the position
   of the next one *)
Input(data, pos) == [data |-> data, pos |-> pos]
NoInput == Input(<<>>, 1)

(* self.qasm: None, or the Program root (its children's types) *)
NoQasm == [isNone |-> TRUE, children |-> <<>>]
Program(ch) == [isNone |-> FALSE, children |-> ch]

(* The fake API object: its class, self._state and, for
   ThrowingNonJobRelatedErrorAPI, self._number_of_exceptions_to_throw *)
FakeAPI(cls, state, n) == [cls |-> cls, _state |-> state, _number_of_exceptions_to_throw |-> n]
NoApi == FakeAPI("none", 0, 0)

(* An entry of _job_status, or another dict a method returns: its keys, "absent"
   for a key it lacks *)
Dict(st, error, infoQueue, qasms) ==
    [status |-> st, error |-> error, infoQueue |-> infoQueue, qasms |-> qasms]
NoDict == Dict("absent", "absent", "absent", "absent")

(* The outcome of a call on the fake API object: the value returned or the
   exception raised *)
Reply(call, job_id, raised, value) ==
    [call |-> call, job_id |-> job_id, raised |-> raised, value |-> value]
NoReply == Reply("none", "", "none", NoDict)

(* Symbol table entries: the nodes update_symtab stores *)
Sym(t, i, bit, nb, na) ==
    [type |-> t, index |-> i, is_bit |-> bit, n_bits |-> nb, n_args |-> na]
NoSym == Sym("none", -1, FALSE, 0, 0)
EmptyTab == [n \in Names |-> NoSym]
Has(tab, n) == tab[n].type # "none"

(* A reference to a dict: the global one (glob) or an owned local one (tab) *)
GlobalRef == [glob |-> TRUE, tab |-> EmptyTab]
LocalRef(tab) == [glob |-> FALSE, tab |-> tab]

(* The three scope attributes, threaded through the helpers below *)
Scope(g, c, s) == [g |-> g, c |-> c, s |-> s]
Here == Scope(global_symtab, current_symtab, symbols)
Cur(sc) == IF sc.c.glob THEN sc.g ELSE sc.c.tab

\* variant that never finds the name bound (used to test C1's sensitivity)
update_symtab_unchecked(sc, name) == TRUE

update_symtab_ok(sc, name) == ~Has(Cur(sc), name)

update_symtab(sc, name, sym) ==
    IF sc.c.glob
    THEN Scope([sc.g EXCEPT ![name] = sym], sc.c, sc.s)
    ELSE Scope(sc.g, LocalRef([sc.c.tab EXCEPT ![name] = sym]), sc.s)

pop_scope(sc) == Scope(sc.g, sc.s[Len(sc.s)], SubSeq(sc.s, 1, Len(sc.s) - 1))

\* variant whose new scope starts as a copy of the current one (used to test
\* C28's sensitivity)
push_scope_inherit(sc) == Scope(sc.g, LocalRef(Cur(sc)), Append(sc.s, sc.c))

push_scope(sc) == Scope(sc.g, LocalRef(EmptyTab), Append(sc.s, sc.c))

SetScope(sc) ==
    /\ global_symtab' = sc.g
    /\ current_symtab' = sc.c
    /\ symbols' = sc.s

----------------------------------------------------------------------------
Init ==
    /\ parseDeb = "unset"
    /\ status = "new"
    /\ err = "none"
    /\ global_symtab = EmptyTab
    /\ current_symtab = GlobalRef
    /\ symbols = <<>>
    /\ ctx = "top"
    /\ decl = NoDecl
    /\ ifs = <<>>
    /\ p0 = None
    /\ program = <<>>
    /\ qasm = NoQasm
    /\ nstmt = 0
    /\ lexer = NoInput
    /\ symstack = <<>>
    /\ api = NoApi
    /\ reply = NoReply

----------------------------------------------------------------------------
(* Outcomes of a reduction *)

\* the first check that fails decides the error raised; "ok" when none fails
FirstErr(checks) ==
    LET bad == {i \in 1..Len(checks) : checks[i] # "ok"}
    IN IF bad = {} THEN "ok"
       ELSE checks[CHOOSE i \in bad : \A j \in bad : i <= j]

\* raise QasmError: the call of parse ends, the parser object keeps its state
\* the kinds of QasmError whose raise statement passes the node's line and file
\* (str(obj.line), 'file', obj.file) to the message; the others pass a text, a
\* name or a value only
located_errors ==
    {"DuplicateDeclaration", "UndeclaredBit", "UndeclaredArgument", "UndeclaredGate",
     "NotAGate", "ArityBits", "ArityArgs", "ArityNoArgs", "UndeclaredSymbol",
     "TypeMismatch", "IndexOutOfRange", "DuplicateOperand"}
unlocated_errors ==
    {"NotABit", "ReservedName", "SizeNotPositive", "NestedIf", "BarrierInIf",
     "IllegalExternal", "EndOfFile", "Uncaught", "IllegalDebugValue", "InvalidMagic"}

Raise(kind) ==
    /\ status' = "raised"
    /\ err' = kind

Parsing == status = "parsing"
AtTop == Parsing /\ ctx = "top"
\* a new statement may start: nothing reduced is waiting for its ';'
StmtStart == AtTop /\ p0 = None
\* a declaration may start: as a statement, and not under an IF prefix
DeclStart == StmtStart /\ ifs = <<>>

----------------------------------------------------------------------------
(* parse_debug and parse *)

DebugVals == {"True", "False", "other"}

\* the record of the last call of parse (its grammar position and last reduction)
\* is dropped when another call raises before any reduction
Forget ==
    /\ ctx' = "top"
    /\ decl' = NoDecl
    /\ ifs' = <<>>
    /\ p0' = None
    /\ program' = <<>>
    /\ lexer' = NoInput
    /\ symstack' = <<>>

parse_debug(val) ==
    /\ status # "parsing"
    /\ IF val \in {"True", "False"}
       THEN /\ parseDeb' = val
            /\ UNCHANGED <<status, err, ctx, decl, ifs, p0, program, lexer, symstack>>
       ELSE /\ Raise("IllegalDebugValue")
            /\ Forget
            /\ UNCHANGED parseDeb
    /\ UNCHANGED <<api, reply, global_symtab, current_symtab, symbols, qasm, nstmt>>

\* parse(data) up to the first reduction: self.parser.parse(..., debug=self.parseDeb)
\* reads the attribute parseDeb, which __init__ never sets (it sets parse_deb)
parse_begin ==
    /\ status # "parsing"
    /\ IF parseDeb = "unset"
       THEN /\ Raise("AttributeError")
            /\ Forget
       ELSE /\ status' = "parsing"
            /\ err' = "none"
            /\ Forget
    /\ UNCHANGED <<parseDeb, api, reply, global_symtab, current_symtab, symbols, qasm, nstmt>>

\* main : program, then parse returns self.qasm
p_main ==
    /\ AtTop /\ ifs = <<>> /\ p0 = None /\ program # <<>>
    /\ qasm' = Program(program)
    /\ status' = "returned"
    /\ UNCHANGED <<lexer, symstack, parseDeb, api, reply, err, global_symtab, current_symtab, symbols, ctx,
                   decl, ifs, p0, program, nstmt>>

\* p_error(None): the input ends where no program is complete; no production is
\* reduced, the parser's stack is abandoned
p_error_eof ==
    /\ Parsing /\ err = "none"
    /\ ~(ctx = "top" /\ ifs = <<>> /\ p0 = None /\ program # <<>>)
    /\ Raise("EndOfFile")
    /\ p0' = None
    /\ UNCHANGED <<lexer, symstack, parseDeb, api, reply, global_symtab, current_symtab, symbols, ctx, decl,
                   ifs, program, qasm, nstmt>>

\* p_error(token) at the very start of the input (a token no statement begins
\* with, such as ';' or ')'): the message is printed and p_error returns without
\* raising; the LR parser, whose stack is empty, drops the token and goes on
\* with the next one.
p_error_token ==
    /\ AtTop /\ ifs = <<>> /\ p0 = None /\ program = <<>>
    /\ err = "none"
    /\ err' = "SyntaxError"
    /\ UNCHANGED <<lexer, symstack, parseDeb, api, reply, status, global_symtab, current_symtab, symbols,
                   ctx, decl, ifs, p0, program, qasm, nstmt>>

\* the input ends right after the dropped token: the parser gives up without
\* calling p_error again, parser.parse returns, and parse tests self.qasm,
\* which holds whatever an earlier call of parse left there
parse_uncaught ==
    /\ AtTop /\ ifs = <<>> /\ p0 = None /\ program = <<>>
    /\ err = "SyntaxError"
    /\ IF qasm = NoQasm
       THEN Raise("Uncaught")
       ELSE status' = "returned" /\ UNCHANGED err
    /\ UNCHANGED <<lexer, symstack, parseDeb, api, reply, global_symtab, current_symtab, symbols, ctx, decl,
                   ifs, p0, program, qasm, nstmt>>

\* variant that puts the statement in front (used to test C25's sensitivity)
p_program_prepend ==
    /\ AtTop /\ ifs = <<>> /\ p0 # None
    /\ program' = <<p0.type>> \o program
    /\ p0' = None
    /\ UNCHANGED <<lexer, symstack, parseDeb, api, reply, status, err, global_symtab, current_symtab, symbols,
                   ctx, decl, ifs, qasm, nstmt>>

\* statement : decl | quantum_op ';'   and   program : statement | program statement
p_program ==
    /\ AtTop /\ ifs = <<>> /\ p0 # None
    /\ program' = Append(program, p0.type)
    /\ p0' = None
    /\ UNCHANGED <<lexer, symstack, parseDeb, api, reply, status, err, global_symtab, current_symtab, symbols,
                   ctx, decl, ifs, qasm, nstmt>>

----------------------------------------------------------------------------
(* The version header *)

\* a REAL token's value, in tenths (20 is 2.0)
Real(tenths) == Node("real", "", tenths, <<>>)
Magic(real) == List("magic", <<real>>)

\* magic : MAGIC REAL
p_magic(tenths) ==
    /\ StmtStart /\ ifs = <<>>
    /\ p0' = Magic(Real(tenths))
    /\ nstmt' = nstmt + 1
    /\ UNCHANGED <<lexer, symstack, parseDeb, api, reply, status, err, global_symtab, current_symtab, symbols,
                   ctx, decl, ifs, program, qasm>>

\* magic : MAGIC error
p_magic_0 ==
    /\ StmtStart /\ ifs = <<>>
    /\ Raise("InvalidMagic")
    /\ nstmt' = nstmt + 1
    /\ UNCHANGED <<lexer, symstack, parseDeb, api, reply, global_symtab, current_symtab, symbols, ctx, decl,
                   ifs, p0, program, qasm>>

----------------------------------------------------------------------------
(* Register declarations *)

RegSym(t, n) == Sym(t, n, FALSE, 0, 0)

reg_decl_check(sc, name, n) ==
    FirstErr(<< IF name \in external_functions THEN "ReservedName" ELSE "ok",
                IF n = 0 THEN "SizeNotPositive" ELSE "ok",
                IF update_symtab_ok(sc, name) THEN "ok" ELSE "DuplicateDeclaration" >>)

reg_decl(t, name, n) ==
    /\ DeclStart
    /\ p0' = Node(t, name, n, <<>>)
    /\ LET e == reg_decl_check(Here, name, n)
       IN IF e = "ok"
          THEN /\ SetScope(update_symtab(Here, name, RegSym(t, n)))
               /\ UNCHANGED <<status, err>>
          ELSE /\ Raise(e)
               /\ UNCHANGED <<global_symtab, current_symtab, symbols>>
    /\ nstmt' = nstmt + 1
    /\ UNCHANGED <<lexer, symstack, parseDeb, api, reply, ctx, decl, ifs, program, qasm>>

p_qreg_decl(name, n) == reg_decl("qreg", name, n)

p_creg_decl(name, n) == reg_decl("creg", name, n)

----------------------------------------------------------------------------
(* The verify_* helpers: each returns the error it raises, or "ok" *)

\* variant that falls back on the global scope (used to test C14's sensitivity)
verify_declared_bit_or_global(sc, obj) ==
    IF ~Has(Cur(sc), obj.name) /\ ~Has(sc.g, obj.name) THEN "UndeclaredBit"
    ELSE IF Has(Cur(sc), obj.name) /\ ~(Cur(sc)[obj.name].type = "id" /\ Cur(sc)[obj.name].is_bit)
         THEN "NotABit"
    ELSE "ok"

verify_declared_bit(sc, obj) ==
    IF ~Has(Cur(sc), obj.name) THEN "UndeclaredBit"
    ELSE IF ~(Cur(sc)[obj.name].type = "id" /\ Cur(sc)[obj.name].is_bit) THEN "NotABit"
    ELSE "ok"

verify_bit_list(sc, obj) ==
    FirstErr([i \in 1..Len(obj.children) |-> verify_declared_bit(sc, obj.children[i])])

RECURSIVE verify_exp_list(_, _)
verify_exp_list(sc, obj) ==
    FirstErr([i \in 1..Len(obj.children) |->
        LET child == obj.children[i]
        IN IF child.type = "id"
           THEN IF child.name \in external_functions THEN "ok"
                ELSE IF ~Has(Cur(sc), child.name) THEN "UndeclaredArgument"
                ELSE "ok"
           ELSE verify_exp_list(sc, child)])

\* variant that looks the callee up in the current scope (used to test C13's
\* sensitivity)
verify_as_gate_current_scope(sc, obj, bitlist, arglist) ==
    LET g_sym == Cur(sc)[obj.name]
    IN IF ~Has(Cur(sc), obj.name) THEN "UndeclaredGate"
       ELSE IF ~(g_sym.type = "gate" \/ g_sym.type = "opaque") THEN "NotAGate"
       ELSE IF g_sym.n_bits # size(bitlist) THEN "ArityBits"
       ELSE IF arglist # None
            THEN IF g_sym.n_args # size(arglist) THEN "ArityArgs" ELSE "ok"
            ELSE IF g_sym.n_args > 0 THEN "ArityNoArgs" ELSE "ok"

\* variant that lets a callee without a global entry pass (used to test C27's
\* sensitivity)
verify_as_gate_unbound_ok(sc, obj, bitlist, arglist) ==
    LET g_sym == sc.g[obj.name]
    IN IF ~Has(sc.g, obj.name) THEN "ok"
       ELSE IF ~(g_sym.type = "gate" \/ g_sym.type = "opaque") THEN "NotAGate"
       ELSE IF g_sym.n_bits # size(bitlist) THEN "ArityBits"
       ELSE IF arglist # None
            THEN IF g_sym.n_args # size(arglist) THEN "ArityArgs" ELSE "ok"
            ELSE IF g_sym.n_args > 0 THEN "ArityNoArgs" ELSE "ok"

\* variant without the bit-list comparison (used to test C4's sensitivity)
verify_as_gate_any_bits(sc, obj, bitlist, arglist) ==
    LET g_sym == sc.g[obj.name]
    IN IF ~Has(sc.g, obj.name) THEN "UndeclaredGate"
       ELSE IF ~(g_sym.type = "gate" \/ g_sym.type = "opaque") THEN "NotAGate"
       ELSE IF arglist # None
            THEN IF g_sym.n_args # size(arglist) THEN "ArityArgs" ELSE "ok"
            ELSE IF g_sym.n_args > 0 THEN "ArityNoArgs" ELSE "ok"

\* variant whose else branch is missing (used to test C5's sensitivity)
verify_as_gate_no_else(sc, obj, bitlist, arglist) ==
    LET g_sym == sc.g[obj.name]
    IN IF ~Has(sc.g, obj.name) THEN "UndeclaredGate"
       ELSE IF ~(g_sym.type = "gate" \/ g_sym.type = "opaque") THEN "NotAGate"
       ELSE IF g_sym.n_bits # size(bitlist) THEN "ArityBits"
       ELSE IF arglist # None /\ g_sym.n_args # size(arglist) THEN "ArityArgs"
       ELSE "ok"

\* arglist is None (no list supplied) or an ExpressionList node
verify_as_gate(sc, obj, bitlist, arglist) ==
    LET g_sym == sc.g[obj.name]
    IN IF ~Has(sc.g, obj.name) THEN "UndeclaredGate"
       ELSE IF ~(g_sym.type = "gate" \/ g_sym.type = "opaque") THEN "NotAGate"
       ELSE IF g_sym.n_bits # size(bitlist) THEN "ArityBits"
       ELSE IF arglist # None
            THEN IF g_sym.n_args # size(arglist) THEN "ArityArgs" ELSE "ok"
            ELSE IF g_sym.n_args > 0 THEN "ArityNoArgs" ELSE "ok"

\* variant without the type test (used to test C20's sensitivity)
verify_reg_any_type(sc, obj, object_type) ==
    LET g_sym == sc.g[obj.name]
    IN IF ~Has(sc.g, obj.name) THEN "UndeclaredSymbol"
       ELSE IF obj.type = "indexed_id" /\ (obj.index < 0 \/ obj.index >= g_sym.index)
            THEN "IndexOutOfRange"
       ELSE "ok"

\* variant whose bound test admits index = size (used to test C8's sensitivity)
verify_reg_off_by_one(sc, obj, object_type) ==
    LET g_sym == sc.g[obj.name]
    IN IF ~Has(sc.g, obj.name) THEN "UndeclaredSymbol"
       ELSE IF g_sym.type # object_type THEN "TypeMismatch"
       ELSE IF obj.type = "indexed_id" /\ (obj.index < 0 \/ obj.index > g_sym.index)
            THEN "IndexOutOfRange"
       ELSE "ok"

verify_reg(sc, obj, object_type) ==
    LET g_sym == sc.g[obj.name]
    IN IF ~Has(sc.g, obj.name) THEN "UndeclaredSymbol"
       ELSE IF g_sym.type # object_type THEN "TypeMismatch"
       ELSE IF obj.type = "indexed_id" /\ (obj.index < 0 \/ obj.index >= g_sym.index)
            THEN "IndexOutOfRange"
       ELSE "ok"

verify_reg_list(sc, obj, object_type) ==
    FirstErr([i \in 1..Len(obj.children) |-> verify_reg(sc, obj.children[i], object_type)])

\* the (name, index) tuples of an id node: the current scope is tried first
id_tuple_list(sc, id_node) ==
    LET g_sym == IF Has(Cur(sc), id_node.name) THEN Cur(sc)[id_node.name]
                 ELSE sc.g[id_node.name]
    IN IF g_sym.type = "qreg" \/ g_sym.type = "creg"
       THEN [idx \in 1..g_sym.index |-> <<id_node.name, idx - 1>>]
       ELSE << <<id_node.name, -1>> >>

RECURSIVE Flatten(_)
Flatten(seqs) == IF seqs = <<>> THEN <<>> ELSE Head(seqs) \o Flatten(Tail(seqs))

\* the tuples one node of list_of_nodes contributes
node_tuples(sc, node) ==
    IF node.type = "id" THEN id_tuple_list(sc, node)
    ELSE IF node.type = "indexed_id" THEN << <<node.name, node.index>> >>
    ELSE Flatten([i \in 1..Len(node.children) |->
            LET child == node.children[i]
            IN IF child.type = "id" THEN id_tuple_list(sc, child)
               ELSE << <<child.name, child.index>> >>])

bit_list(sc, list_of_nodes) ==
    Flatten([i \in 1..Len(list_of_nodes) |-> node_tuples(sc, list_of_nodes[i])])

Range(seq) == {seq[i] : i \in 1..Len(seq)}

\* variant that compares the operands' names only (used to test C6's sensitivity)
verify_distinct_by_name(sc, list_of_nodes) ==
    LET bits == bit_list(sc, list_of_nodes)
        names == [i \in 1..Len(bits) |-> bits[i][1]]
    IN IF Len(names) # Cardinality(Range(names)) THEN "DuplicateOperand" ELSE "ok"

verify_distinct(sc, list_of_nodes) ==
    LET bits == bit_list(sc, list_of_nodes)
    IN IF Len(bits) # Cardinality(Range(bits)) THEN "DuplicateOperand" ELSE "ok"

----------------------------------------------------------------------------
(* Gate and opaque declarations *)

GateSym(t, nb, na) == Sym(t, -1, FALSE, nb, na)
IdSym(bit) == Sym("id", -1, bit, 0, 0)

\* GATE id gate_scope / OPAQUE id gate_scope: the empty production pushes a scope.
\* form 0: no parentheses, 1: '(' ')', 2: '(' gate_id_list ')'
p_gate_scope(t, name, form) ==
    /\ IF t = "gate" THEN DeclStart ELSE StmtStart
    /\ SetScope(push_scope(Here))
    /\ ctx' = "params"
    /\ decl' = Decl(t, name, form, 0, 0)
    /\ nstmt' = nstmt + 1
    /\ UNCHANGED <<lexer, symstack, parseDeb, api, reply, status, err, ifs, p0, program, qasm>>

\* a parameter enters the current scope through update_symtab
param(name, bit) ==
    /\ p0' = List("id_list", <<Id(name)>>)
    /\ IF update_symtab_ok(Here, name)
       THEN /\ SetScope(update_symtab(Here, name, IdSym(bit)))
            /\ UNCHANGED <<status, err>>
       ELSE /\ Raise("DuplicateDeclaration")
            /\ UNCHANGED <<global_symtab, current_symtab, symbols>>
    /\ UNCHANGED <<lexer, symstack, parseDeb, api, reply, ctx, ifs, program, qasm, nstmt>>

\* gate_id_list : id | gate_id_list ',' id
p_gate_id_list(name) ==
    /\ Parsing /\ ctx = "params"
    /\ decl.form = 2 /\ decl.bits = 0 /\ decl.args < MaxParams
    /\ decl' = [decl EXCEPT !.args = @ + 1]
    /\ param(name, FALSE)

\* bit_list : id | bit_list ',' id      (program[i].is_bit = True)
p_bit_list(name) ==
    /\ Parsing /\ ctx = "params"
    /\ decl.form = 2 => decl.args >= 1
    /\ decl.bits < MaxParams
    /\ decl' = [decl EXCEPT !.bits = @ + 1]
    /\ param(name, TRUE)

\* p_gate_decl_0..2 and p_opaque_0..2: reserved-name check (absent from
\* p_opaque_1), pop_scope, update_symtab
decl_reserved_checked(t, form) == ~(t = "opaque" /\ form = 1)

decl_end(t) ==
    /\ Parsing /\ decl.type = t /\ decl.bits >= 1
    /\ p0' = Node(t, decl.name, -1, <<>>)
    /\ ctx' = "top"
    /\ decl' = NoDecl
    /\ IF decl_reserved_checked(t, decl.form) /\ decl.name \in external_functions
       THEN /\ Raise("ReservedName")
            /\ UNCHANGED <<global_symtab, current_symtab, symbols>>
       ELSE LET popped == pop_scope(Here)
            IN IF update_symtab_ok(popped, decl.name)
               THEN /\ SetScope(update_symtab(popped, decl.name,
                                              GateSym(t, decl.bits, decl.args)))
                    /\ UNCHANGED <<status, err>>
               ELSE /\ SetScope(popped)
                    /\ Raise("DuplicateDeclaration")
    /\ UNCHANGED <<lexer, symstack, parseDeb, api, reply, ifs, program, qasm, nstmt>>

\* gate_decl : GATE id gate_scope [ '(' [gate_id_list] ')' ] bit_list gate_body
p_gate_decl == ctx \in {"params", "body"} /\ decl_end("gate")

\* opaque : OPAQUE id gate_scope [ '(' [gate_id_list] ')' ] bit_list
p_opaque == ctx = "params" /\ decl_end("opaque")

----------------------------------------------------------------------------
(* Operations *)

ExpressionList(exps) == List("expression_list", exps)
PrimaryList(prims) == List("primary_list", prims)
IdList(ids) == List("id_list", ids)
UniversalUnitary(exps, prim) == List("universal_unitary", <<exps, prim>>)
Cnot(a, b) == List("cnot", <<a, b>>)
CustomUnitary(id, arglist, bits) ==
    Node("custom_unitary", id.name, -1,
         IF arglist = None THEN <<id, bits>> ELSE <<id, arglist, bits>>)
Measure(a, b) == List("measure", <<a, b>>)
Barrier(list) == List("barrier", <<list>>)
Reset(a) == List("reset", <<a>>)
If(id, n, op) == List("if", <<id, IntNode(n), op>>)

\* program[0] = node, then the checks in order: the first failing one raises
Reduce(node, checks) ==
    /\ p0' = node
    /\ IF FirstErr(checks) = "ok"
       THEN UNCHANGED <<status, err>>
       ELSE Raise(FirstErr(checks))

TopFrame ==
    /\ nstmt' = nstmt + 1
    /\ UNCHANGED <<lexer, symstack, parseDeb, api, reply, global_symtab, current_symtab, symbols, ctx, decl, ifs,
                   program, qasm>>

\* unitary_op : U '(' exp_list ')' primary
p_unitary_op_0(exps, prim) ==
    /\ StmtStart
    /\ Reduce(UniversalUnitary(exps, prim),
              << verify_reg(Here, prim, "qreg"), verify_exp_list(Here, exps) >>)
    /\ TopFrame

\* unitary_op : CX primary ',' primary
p_unitary_op_1(a, b) ==
    /\ StmtStart
    /\ Reduce(Cnot(a, b),
              << verify_reg(Here, a, "qreg"), verify_reg(Here, b, "qreg"),
                 verify_distinct(Here, <<a, b>>) >>)
    /\ TopFrame

\* unitary_op : id primary_list
p_unitary_op_2(id, bits) ==
    /\ StmtStart
    /\ Reduce(CustomUnitary(id, None, bits),
              << verify_as_gate(Here, id, bits, None),
                 verify_reg_list(Here, bits, "qreg"),
                 verify_distinct(Here, <<bits>>) >>)
    /\ TopFrame

\* unitary_op : id '(' ')' primary_list
p_unitary_op_3(id, bits) ==
    /\ StmtStart
    /\ Reduce(CustomUnitary(id, None, bits),
              << verify_as_gate(Here, id, bits, None),
                 verify_reg_list(Here, bits, "qreg"),
                 verify_distinct(Here, <<bits>>) >>)
    /\ TopFrame

\* variant that checks the argument expressions before the operands (used to
\* test C26's sensitivity)
p_unitary_op_4_args_first(id, exps, bits) ==
    /\ StmtStart
    /\ Reduce(CustomUnitary(id, exps, bits),
              << verify_as_gate(Here, id, bits, exps),
                 verify_exp_list(Here, exps),
                 verify_reg_list(Here, bits, "qreg"),
                 verify_distinct(Here, <<bits>>) >>)
    /\ TopFrame

\* unitary_op : id '(' exp_list ')' primary_list
p_unitary_op_4(id, exps, bits) ==
    /\ StmtStart
    /\ Reduce(CustomUnitary(id, exps, bits),
              << verify_as_gate(Here, id, bits, exps),
                 verify_reg_list(Here, bits, "qreg"),
                 verify_exp_list(Here, exps),
                 verify_distinct(Here, <<bits>>) >>)
    /\ TopFrame

\* measure : MEASURE primary ASSIGN primary
p_measure(a, b) ==
    /\ StmtStart
    /\ Reduce(Measure(a, b),
              << verify_reg(Here, a, "qreg"), verify_reg(Here, b, "creg") >>)
    /\ TopFrame

\* barrier : BARRIER primary_list
p_barrier(list) ==
    /\ StmtStart
    /\ Reduce(Barrier(list),
              << verify_reg_list(Here, list, "qreg"), verify_distinct(Here, <<list>>) >>)
    /\ TopFrame

\* reset : RESET primary
p_reset(a) ==
    /\ StmtStart
    /\ Reduce(Reset(a), << verify_reg(Here, a, "qreg") >>)
    /\ TopFrame

\* the tokens IF '(' id MATCHES NNINTEGER ')' are shifted; no reduction yet
shift_if(id, n) ==
    /\ StmtStart
    /\ Len(ifs) < MaxIf
    /\ ifs' = <<[id |-> id, n |-> n]>> \o ifs
    /\ UNCHANGED <<lexer, symstack, parseDeb, api, reply, status, err, global_symtab, current_symtab, symbols,
                   ctx, decl, p0, program, qasm, nstmt>>

QuantumOps == {"universal_unitary", "cnot", "custom_unitary", "opaque", "measure",
               "barrier", "reset", "if"}

\* variant without the barrier test (used to test C9's sensitivity)
p_if_any_but_if ==
    /\ AtTop /\ ifs # <<>> /\ p0.type \in QuantumOps
    /\ ifs' = Tail(ifs)
    /\ IF p0.type = "if" THEN Raise("NestedIf") /\ UNCHANGED p0
       ELSE /\ p0' = If(Id(Head(ifs).id), Head(ifs).n, p0)
            /\ UNCHANGED <<status, err>>
    /\ UNCHANGED <<lexer, symstack, parseDeb, api, reply, global_symtab, current_symtab, symbols, ctx, decl,
                   program, qasm, nstmt>>

\* if : IF '(' id MATCHES NNINTEGER ')' quantum_op
p_if ==
    /\ AtTop /\ ifs # <<>> /\ p0.type \in QuantumOps
    /\ ifs' = Tail(ifs)
    /\ IF p0.type = "if" THEN Raise("NestedIf") /\ UNCHANGED p0
       ELSE IF p0.type = "barrier" THEN Raise("BarrierInIf") /\ UNCHANGED p0
       ELSE /\ p0' = If(Id(Head(ifs).id), Head(ifs).n, p0)
            /\ UNCHANGED <<status, err>>
    /\ UNCHANGED <<lexer, symstack, parseDeb, api, reply, global_symtab, current_symtab, symbols, ctx, decl,
                   program, qasm, nstmt>>

----------------------------------------------------------------------------
(* Operations of a gate body (gate_op): plain ids only *)

InBody == Parsing /\ ctx \in {"params", "body"} /\ decl.type = "gate" /\ decl.bits >= 1

BodyFrame ==
    /\ ctx' = "body"
    /\ UNCHANGED <<lexer, symstack, parseDeb, api, reply, global_symtab, current_symtab, symbols, decl, ifs,
                   program, qasm, nstmt>>

\* gate_op : U '(' exp_list ')' id ';'
p_gate_op_0(exps, id) ==
    /\ InBody
    /\ Reduce(UniversalUnitary(exps, id),
              << verify_declared_bit(Here, id), verify_exp_list(Here, exps) >>)
    /\ BodyFrame

\* gate_op : CX id ',' id ';'
p_gate_op_1(a, b) ==
    /\ InBody
    /\ Reduce(Cnot(a, b),
              << verify_declared_bit(Here, a), verify_declared_bit(Here, b),
                 verify_distinct(Here, <<a, b>>) >>)
    /\ BodyFrame

\* gate_op : id id_list ';'
p_gate_op_2(id, bits) ==
    /\ InBody
    /\ Reduce(CustomUnitary(id, None, bits),
              << verify_as_gate(Here, id, bits, None),
                 verify_bit_list(Here, bits),
                 verify_distinct(Here, <<bits>>) >>)
    /\ BodyFrame

\* gate_op : id '(' ')' id_list ';'
p_gate_op_3(id, bits) ==
    /\ InBody
    /\ Reduce(CustomUnitary(id, None, bits),
              << verify_as_gate(Here, id, bits, None),
                 verify_bit_list(Here, bits),
                 verify_distinct(Here, <<bits>>) >>)
    /\ BodyFrame

\* gate_op : id '(' exp_list ')' id_list ';'
p_gate_op_4(id, exps, bits) ==
    /\ InBody
    /\ Reduce(CustomUnitary(id, exps, bits),
              << verify_as_gate(Here, id, bits, exps),
                 verify_bit_list(Here, bits),
                 verify_exp_list(Here, exps),
                 verify_distinct(Here, <<bits>>) >>)
    /\ BodyFrame

\* gate_op : BARRIER id_list ';'
p_gate_op_5(list) ==
    /\ InBody
    /\ Reduce(Barrier(list),
              << verify_bit_list(Here, list), verify_distinct(Here, <<list>>) >>)
    /\ BodyFrame

----------------------------------------------------------------------------
(* Expressions: the productions unary .. expression, reduced by the LR parser.
   The grammar has no conflict, so the parser's moves are decided by the top of
   its stack and the next token. *)

Tok(t, n, i) == Node(t, n, i, <<>>)
EndTok == Tok(")", ")", -1)
BinaryOperator(op) == Node("operator", op, -1, <<>>)
UnaryOperator(op) == Node("unary_operator", op, -1, <<>>)
BinaryOp(op, left, right) == List("binop", <<BinaryOperator(op), left, right>>)
Prefix(op, e) == List("prefix", <<UnaryOperator(op), e>>)

Entry(sym, val) == [sym |-> sym, val |-> val]
LookAhead == IF lexer.pos <= Len(lexer.data) THEN lexer.data[lexer.pos] ELSE EndTok
Top == symstack[Len(symstack)]
\* the symbol k entries below the top ("" when the stack is not that deep)
SymAt(k) == IF Len(symstack) > k THEN symstack[Len(symstack) - k].sym ELSE ""
ValAt(k) == symstack[Len(symstack) - k].val
\* the stack with its top n entries replaced by one
Reduced(n, sym, val) == Append(SubSeq(symstack, 1, Len(symstack) - n), Entry(sym, val))

InExp == Parsing /\ ctx = "exp" /\ symstack # <<>>

ExpFrame ==
    UNCHANGED <<parseDeb, api, reply, status, err, global_symtab, current_symtab, symbols,
                ctx, decl, ifs, program, qasm, nstmt>>

\* a reduction: program[0] is built from the n entries on top of the stack
reduce(n, sym, val) ==
    /\ symstack' = Reduced(n, sym, val)
    /\ p0' = val
    /\ UNCHANGED lexer
    /\ ExpFrame

\* U '(' is shifted and the expression's tokens are handed to the lexer
shift_U(data) ==
    /\ StmtStart /\ ifs = <<>>
    /\ lexer' = Input(data, 1)
    /\ symstack' = <<>>
    /\ ctx' = "exp"
    /\ nstmt' = nstmt + 1
    /\ UNCHANGED <<parseDeb, api, reply, status, err, global_symtab, current_symtab, symbols,
                   decl, ifs, p0, program, qasm>>

\* the parser shifts the next token where no reduction applies
shift ==
    /\ Parsing /\ ctx = "exp"
    /\ lexer.pos <= Len(lexer.data)
    /\ IF symstack = <<>> THEN TRUE
       ELSE IF Top.sym = "additive_expression" THEN LookAhead.type \in {"+", "-"}
       ELSE IF Top.sym = "multiplicative_expression" THEN LookAhead.type \in {"*", "/"}
       ELSE IF Top.sym = "expression"
            THEN LookAhead.type = "^" \/ (LookAhead.type = ")" /\ SymAt(1) = "(")
       ELSE IF Top.sym = "id" THEN LookAhead.type = "("
       ELSE Top.sym \in {"+", "-", "*", "/", "^", "("}
    /\ symstack' = Append(symstack, Entry(LookAhead.type, LookAhead))
    /\ lexer' = Input(lexer.data, lexer.pos + 1)
    /\ UNCHANGED p0
    /\ ExpFrame

\* unary : NNINTEGER
p_unary_0 ==
    /\ InExp /\ Top.sym = "NNINTEGER"
    /\ reduce(1, "unary", IntNode(Top.val.index))

\* id : ID
p_id ==
    /\ InExp /\ Top.sym = "ID"
    /\ reduce(1, "id", Id(Top.val.name))

\* unary : id
p_unary_3 ==
    /\ InExp /\ Top.sym = "id"
    /\ LookAhead.type # "("
    /\ reduce(1, "unary", Top.val)

\* unary : '(' expression ')'
p_unary_4 ==
    /\ InExp /\ Top.sym = ")"
    /\ SymAt(1) = "expression" /\ SymAt(2) = "(" /\ SymAt(3) # "id"
    /\ reduce(3, "unary", ValAt(1))

External(id, e) == List("external", <<id, e>>)

\* variant that also admits a name bound in the current scope (used to test C12's
\* sensitivity)
p_unary_6_or_bound ==
    /\ InExp /\ Top.sym = ")"
    /\ SymAt(1) = "expression" /\ SymAt(2) = "(" /\ SymAt(3) = "id"
    /\ IF ValAt(3).name \notin external_functions /\ ~Has(Cur(Here), ValAt(3).name)
       THEN /\ Raise("IllegalExternal")
            /\ UNCHANGED <<p0, lexer, symstack>>
            /\ UNCHANGED <<parseDeb, api, reply, global_symtab, current_symtab, symbols, ctx, decl,
                           ifs, program, qasm, nstmt>>
       ELSE reduce(4, "unary", External(ValAt(3), ValAt(1)))

\* unary : id '(' expression ')'
p_unary_6 ==
    /\ InExp /\ Top.sym = ")"
    /\ SymAt(1) = "expression" /\ SymAt(2) = "(" /\ SymAt(3) = "id"
    /\ IF ValAt(3).name \notin external_functions
       THEN /\ Raise("IllegalExternal")
            /\ UNCHANGED <<p0, lexer, symstack>>
            /\ UNCHANGED <<parseDeb, api, reply, global_symtab, current_symtab, symbols, ctx, decl,
                           ifs, program, qasm, nstmt>>
       ELSE reduce(4, "unary", External(ValAt(3), ValAt(1)))

\* U '(' is shifted inside a gate body (gate_op : U '(' exp_list ')' id ';')
shift_U_body(data) ==
    /\ InBody
    /\ lexer' = Input(data, 1)
    /\ symstack' = <<>>
    /\ ctx' = "exp"
    /\ UNCHANGED <<parseDeb, api, reply, status, err, global_symtab, current_symtab, symbols,
                   decl, ifs, p0, program, qasm, nstmt>>

\* prefix_expression : unary
p_prefix_expression_0 ==
    /\ InExp /\ Top.sym = "unary"
    /\ reduce(1, "prefix_expression", Top.val)

\* prefix_expression : '+' prefix_expression | '-' prefix_expression
p_prefix_expression_1 ==
    /\ InExp /\ Top.sym = "prefix_expression"
    /\ SymAt(1) \in {"+", "-"} /\ SymAt(2) # "additive_expression"
    /\ reduce(2, "prefix_expression", Prefix(SymAt(1), Top.val))

\* additive_expression : prefix_expression
p_additive_expression_0 ==
    /\ InExp /\ Top.sym = "prefix_expression"
    /\ SymAt(1) \notin {"+", "-"}
    /\ reduce(1, "additive_expression", Top.val)

\* additive_expression : additive_expression '+' prefix_expression
\*                     | additive_expression '-' prefix_expression
p_additive_expression_1 ==
    /\ InExp /\ Top.sym = "prefix_expression"
    /\ SymAt(1) \in {"+", "-"} /\ SymAt(2) = "additive_expression"
    /\ reduce(3, "additive_expression", BinaryOp(SymAt(1), ValAt(2), Top.val))

\* multiplicative_expression : additive_expression
p_multiplicative_expression_0 ==
    /\ InExp /\ Top.sym = "additive_expression"
    /\ LookAhead.type \notin {"+", "-"}
    /\ SymAt(1) \notin {"*", "/"}
    /\ reduce(1, "multiplicative_expression", Top.val)

\* multiplicative_expression : multiplicative_expression '*' additive_expression
\*                           | multiplicative_expression '/' additive_expression
p_multiplicative_expression_1 ==
    /\ InExp /\ Top.sym = "additive_expression"
    /\ LookAhead.type \notin {"+", "-"}
    /\ SymAt(1) \in {"*", "/"}
    /\ reduce(3, "multiplicative_expression", BinaryOp(SymAt(1), ValAt(2), Top.val))

\* expression : multiplicative_expression
p_expression_0 ==
    /\ InExp /\ Top.sym = "multiplicative_expression"
    /\ LookAhead.type \notin {"*", "/"}
    /\ SymAt(1) # "^"
    /\ reduce(1, "expression", Top.val)

\* variant that builds the node with its operands exchanged (used to test C11's
\* sensitivity)
p_expression_1_swapped ==
    /\ InExp /\ Top.sym = "multiplicative_expression"
    /\ LookAhead.type \notin {"*", "/"}
    /\ SymAt(1) = "^"
    /\ reduce(3, "expression", BinaryOp("^", Top.val, ValAt(2)))

\* expression : expression '^' multiplicative_expression
p_expression_1 ==
    /\ InExp /\ Top.sym = "multiplicative_expression"
    /\ LookAhead.type \notin {"*", "/"}
    /\ SymAt(1) = "^"
    /\ reduce(3, "expression", BinaryOp("^", ValAt(2), Top.val))

\* exp_list : expression
p_exp_list_0 ==
    /\ InExp /\ Top.sym = "expression"
    /\ LookAhead.type \notin {"^"} /\ SymAt(1) # "("
    /\ reduce(1, "exp_list", ExpressionList(<<Top.val>>))

----------------------------------------------------------------------------
(* The parser object's life: parse_debug, parse, and the end of a parse *)

Run ==
    \/ parse_begin
    \/ p_main
    \/ p_error_eof
    \/ p_program

Life ==
    \/ \E val \in DebugVals : parse_debug(val)
    \/ Run

\* a parser object on which parse is called once
RunOnce ==
    \/ status = "new" /\ parse_begin
    \/ p_main
    \/ p_error_eof
    \/ p_program

(* Declarations: programs that declare registers, gates and opaques *)

DeclNames == {"q", "sin"}
DeclSizes == {0, 1}
ParamNames == {"q", "g"}

Next ==
    \/ Life
    \/ nstmt < MaxStmts /\ \E name \in DeclNames, n \in DeclSizes : p_qreg_decl(name, n)
    \/ nstmt < MaxStmts /\ \E name \in DeclNames, n \in DeclSizes : p_creg_decl(name, n)
    \/ nstmt < MaxStmts /\ \E t \in {"gate", "opaque"}, name \in DeclNames, form \in 0..2 :
            p_gate_scope(t, name, form)
    \/ \E name \in ParamNames : p_gate_id_list(name)
    \/ \E name \in ParamNames : p_bit_list(name)
    \/ p_gate_decl
    \/ p_opaque

Spec == Init /\ [][Next]_vars

----------------------------------------------------------------------------
(* Gate calls: programs that declare a register and gates, and call the gates,
   in the first call of parse on a parser object *)

MaxCallStmts == 3   \* statements started (gate-call programs)

Seqs(S) == {<<a>> : a \in S} \cup {<<a, b>> : a \in S, b \in S}
GateNames == {"g", "h"}
BitNames == {"q", "c"}
CallPrims == {Id("q"), IndexedId("q", 0), IndexedId("q", 1)}
CallBits == {PrimaryList(l) : l \in Seqs(CallPrims)}
CallIds == {IdList(l) : l \in Seqs({Id(n) : n \in BitNames})}
CallArgs == {ExpressionList(l) : l \in Seqs({IntNode(0)})}
Callees == {Id(n) : n \in GateNames}

NextCall ==
    \/ parse_debug("False")
    \/ RunOnce
    \/ nstmt < MaxCallStmts /\ p_qreg_decl("q", MaxSize)
    \/ nstmt < MaxCallStmts /\ \E t \in {"gate", "opaque"}, name \in GateNames, form \in 0..2 :
            p_gate_scope(t, name, form)
    \/ \E name \in BitNames : p_gate_id_list(name)
    \/ \E name \in BitNames : p_bit_list(name)
    \/ p_gate_decl
    \/ p_opaque
    \/ nstmt < MaxCallStmts /\ \E id \in Callees, bits \in CallBits : p_unitary_op_2(id, bits)
    \/ nstmt < MaxCallStmts /\ \E id \in Callees, bits \in CallBits : p_unitary_op_3(id, bits)
    \/ nstmt < MaxCallStmts /\ \E id \in Callees, exps \in CallArgs, bits \in CallBits :
            p_unitary_op_4(id, exps, bits)
    \/ \E id \in Callees, bits \in CallIds : p_gate_op_2(id, bits)
    \/ \E id \in Callees, bits \in CallIds : p_gate_op_3(id, bits)
    \/ \E id \in Callees, exps \in CallArgs, bits \in CallIds : p_gate_op_4(id, exps, bits)

SpecCall == Init /\ [][NextCall]_vars

----------------------------------------------------------------------------
(* Operands: programs that declare registers and a gate, and apply operations
   to whole registers and to indexed bits *)

MaxBitStmts == 3   \* statements started over all calls of parse (operand programs)

RegPrims(name, top) == {Id(name)} \cup {IndexedId(name, k) : k \in 0..top}
QregPrims == RegPrims("q", MaxSize) \cup RegPrims("r", 0)
CregPrims == RegPrims("c", 1)
QregLists == {PrimaryList(l) : l \in Seqs(QregPrims)}
BodyIds == {Id("q"), Id("r")}
Exp0 == ExpressionList(<<IntNode(0)>>)

NextBits ==
    \/ parse_debug("False")
    \/ Run
    \/ nstmt < MaxBitStmts /\ \E n \in 1..MaxSize : p_qreg_decl("q", n)
    \/ nstmt < MaxBitStmts /\ p_qreg_decl("r", 1)
    \/ nstmt < MaxBitStmts /\ p_creg_decl("c", 1)
    \/ nstmt < MaxBitStmts /\ p_gate_scope("gate", "g", 0)
    \/ \E name \in {"q", "r"} : p_bit_list(name)
    \/ p_gate_decl
    \/ nstmt < MaxBitStmts /\ \E prim \in QregPrims : p_unitary_op_0(Exp0, prim)
    \/ nstmt < MaxBitStmts /\ \E a \in QregPrims, b \in QregPrims : p_unitary_op_1(a, b)
    \/ nstmt < MaxBitStmts /\ \E bits \in QregLists : p_unitary_op_2(Id("g"), bits)
    \/ nstmt < MaxBitStmts /\ \E a \in QregPrims, b \in CregPrims : p_measure(a, b)
    \/ nstmt < MaxBitStmts /\ \E list \in QregLists : p_barrier(list)
    \/ nstmt < MaxBitStmts /\ \E a \in QregPrims : p_reset(a)
    \/ \E a \in BodyIds, b \in BodyIds : p_gate_op_1(a, b)

SpecBits == Init /\ [][NextBits]_vars

----------------------------------------------------------------------------
(* Conditionals: programs that declare q, c and an opaque g and put operations
   under IF prefixes *)

MaxIfStmts == 3   \* statements started over all calls of parse (conditional programs)

IfPrims == {IndexedId("q", 0), IndexedId("q", MaxSize)}
CnotTargets == {IndexedId("q", MaxSize - 1), IndexedId("q", MaxSize)}

NextIf ==
    \/ parse_debug("False")
    \/ Run
    \/ nstmt < MaxIfStmts /\ p_qreg_decl("q", MaxSize)
    \/ nstmt < MaxIfStmts /\ p_creg_decl("c", 1)
    \/ nstmt < MaxIfStmts /\ p_gate_scope("opaque", "g", 0)
    \/ p_bit_list("q")
    \/ p_opaque
    \/ shift_if("c", 1)
    \/ nstmt < MaxIfStmts /\ \E prim \in IfPrims : p_unitary_op_0(Exp0, prim)
    \/ nstmt < MaxIfStmts /\ \E b \in CnotTargets : p_unitary_op_1(IndexedId("q", 0), b)
    \/ nstmt < MaxIfStmts /\ \E prim \in IfPrims : p_unitary_op_2(Id("g"), PrimaryList(<<prim>>))
    \/ nstmt < MaxIfStmts /\ \E a \in IfPrims : p_measure(a, IndexedId("c", 0))
    \/ nstmt < MaxIfStmts /\ \E prim \in IfPrims : p_barrier(PrimaryList(<<prim>>))
    \/ nstmt < MaxIfStmts /\ \E a \in IfPrims : p_reset(a)
    \/ p_if

SpecIf == Init /\ [][NextIf]_vars

----------------------------------------------------------------------------
(* Expressions: programs whose first statement applies U to one expression *)

MaxBinOps == 2   \* binary operators of an expression

Operands == {Tok("NNINTEGER", "", v) : v \in 0..2}
BinOps == {Tok(op, op, -1) : op \in {"+", "-", "*", "/", "^"}}

\* operand (operator operand)^n
RECURSIVE Chains(_)
Chains(n) ==
    IF n = 0 THEN {<<a>> : a \in Operands}
    ELSE {c \o <<op, a>> : c \in Chains(n - 1), op \in BinOps, a \in Operands}

ExpInputs ==
    LET plain == UNION {Chains(n) : n \in 0..MaxBinOps}
    IN plain \cup {<<Tok("-", "-", -1)>> \o c : c \in plain}

NextExpr ==
    \/ parse_debug("False")
    \/ parse_begin
    \/ nstmt = 0 /\ \E data \in ExpInputs : shift_U(data)
    \/ shift
    \/ p_unary_0
    \/ p_prefix_expression_0
    \/ p_prefix_expression_1
    \/ p_additive_expression_0
    \/ p_additive_expression_1
    \/ p_multiplicative_expression_0
    \/ p_multiplicative_expression_1
    \/ p_expression_0
    \/ p_expression_1
    \/ p_exp_list_0

SpecExpr == Init /\ [][NextExpr]_vars

----------------------------------------------------------------------------
(* External calls: programs that declare q, or open a gate g(h) q, and apply U
   to an expression with a call name(expr) *)

MaxExtStmts == 2   \* statements started over all calls of parse (external-call programs)

ExtNames == {"sin", "q", "h", "r"}
Zero == Tok("NNINTEGER", "", 0)
Call(name, arg) == <<Tok("ID", name, -1), Tok("(", "(", -1)>> \o arg \o <<Tok(")", ")", -1)>>

ExtInputs ==
    {Call(n, <<Zero>>) : n \in ExtNames}
    \cup {<<Zero, Tok("+", "+", -1)>> \o Call(n, <<Zero>>) : n \in ExtNames}
    \cup {Call(n, Call(m, <<Zero>>)) : n \in ExtNames, m \in ExtNames}
    \cup {Call(n, <<Tok("ID", m, -1)>>) : n \in ExtNames, m \in ExtNames}
    \cup {<<Tok("(", "(", -1), Zero, Tok(")", ")", -1)>>}

NextExt ==
    \/ parse_debug("False")
    \/ parse_begin
    \/ p_program
    \/ nstmt < MaxExtStmts /\ p_qreg_decl("q", 1)
    \/ nstmt < MaxExtStmts /\ p_gate_scope("gate", "g", 2)
    \/ p_gate_id_list("h")
    \/ p_bit_list("q")
    \/ nstmt < MaxExtStmts /\ \E data \in ExtInputs : shift_U(data)
    \/ \E data \in ExtInputs : shift_U_body(data)
    \/ shift
    \/ p_id
    \/ p_unary_0
    \/ p_unary_3
    \/ p_unary_4
    \/ p_unary_6
    \/ p_prefix_expression_0
    \/ p_additive_expression_0
    \/ p_additive_expression_1
    \/ p_multiplicative_expression_0
    \/ p_expression_0
    \/ p_exp_list_0

SpecExt == Init /\ [][NextExt]_vars

----------------------------------------------------------------------------
(* Gate bodies: programs that declare a qreg q and a gate h, then a gate g whose
   parameters may be named like them, and apply operations in g's body *)

MaxBodyStmts == 3   \* statements started over all calls of parse (gate-body programs)

BodyNames == {"q", "h", "c"}
BodyOperands == {Id(n) : n \in BodyNames}
BodyLists == {IdList(l) : l \in Seqs(BodyOperands)}

NextBody ==
    \/ parse_debug("False")
    \/ RunOnce
    \/ nstmt < MaxBodyStmts /\ p_qreg_decl("q", 1)
    \/ nstmt < MaxBodyStmts /\ p_gate_scope("gate", "h", 0)
    \/ nstmt < MaxBodyStmts /\ \E form \in {0, 2} : p_gate_scope("gate", "g", form)
    \/ \E name \in {"h", "c"} : p_gate_id_list(name)
    \/ \E name \in {"h", "q"} : p_bit_list(name)
    \/ p_gate_decl
    \/ \E id \in BodyOperands : p_gate_op_0(Exp0, id)
    \/ \E a \in BodyOperands, b \in BodyOperands : p_gate_op_1(a, b)
    \/ \E id \in BodyOperands, bits \in BodyLists : p_gate_op_2(id, bits)
    \/ \E list \in BodyLists : p_gate_op_5(list)

SpecBody == Init /\ [][NextBody]_vars

----------------------------------------------------------------------------
(* Reserved names: programs whose declarations and gate parameters may be
   called sin *)

MaxResStmts == 2   \* statements started over all calls of parse (reserved-name programs)

ResNames == {"g", "sin"}

NextRes ==
    \/ parse_debug("False")
    \/ RunOnce
    \/ nstmt < MaxResStmts /\ \E name \in ResNames : p_qreg_decl(name, 1)
    \/ nstmt < MaxResStmts /\ \E name \in ResNames : p_creg_decl(name, 1)
    \/ nstmt < MaxResStmts /\ \E t \in {"gate", "opaque"}, name \in ResNames, form \in 0..2 :
            p_gate_scope(t, name, form)
    \/ \E name \in ResNames : p_gate_id_list(name)
    \/ \E name \in ResNames : p_bit_list(name)
    \/ p_gate_decl
    \/ p_opaque

SpecRes == Init /\ [][NextRes]_vars

----------------------------------------------------------------------------
(* Argument expressions: programs that declare qreg q and gates with or without
   an argument parameter c, and apply U and parametrized calls to expressions
   with an identifier at some depth *)

MaxArgStmts == 3   \* statements started over all calls of parse (argument programs)

ArgNames == {"c", "q", "sin"}
ArgTrees(x) ==
    { Id(x),
      BinaryOp("+", IntNode(0), Id(x)),
      Prefix("-", External(Id("sin"), Id(x))) }
ArgLists == {ExpressionList(<<e>>) : e \in UNION {ArgTrees(x) : x \in ArgNames}}
Q0 == IndexedId("q", 0)

NextArgs ==
    \/ parse_debug("False")
    \/ Run
    \/ nstmt < MaxArgStmts /\ p_qreg_decl("q", 1)
    \/ nstmt < MaxArgStmts /\ \E name \in {"g", "h"}, form \in {0, 2} :
            p_gate_scope("gate", name, form)
    \/ p_gate_id_list("c")
    \/ p_bit_list("q")
    \/ p_gate_decl
    \/ nstmt < MaxArgStmts /\ \E exps \in ArgLists : p_unitary_op_0(exps, Q0)
    \/ nstmt < MaxArgStmts /\ \E exps \in ArgLists :
            p_unitary_op_4(Id("g"), exps, PrimaryList(<<Q0>>))
    \/ \E exps \in ArgLists : p_gate_op_0(exps, Id("q"))
    \/ \E exps \in ArgLists : p_gate_op_4(Id("g"), exps, IdList(<<Id("q")>>))

SpecArgs == Init /\ [][NextArgs]_vars

----------------------------------------------------------------------------
(* Operand kinds: programs that declare qreg q, creg c and opaque g, and apply
   top-level operations to operands of every kind *)

MaxTypeStmts == 3   \* statements started over all calls of parse (operand-kind programs)

TypePrims == {Id("q"), IndexedId("q", 0), Id("c"), IndexedId("c", 0), Id("g"), Id("r")}
TypeLists == {PrimaryList(<<a>>) : a \in TypePrims}

NextType ==
    \/ parse_debug("False")
    \/ Run
    \/ nstmt < MaxTypeStmts /\ p_qreg_decl("q", 1)
    \/ nstmt < MaxTypeStmts /\ p_creg_decl("c", 1)
    \/ nstmt < MaxTypeStmts /\ p_gate_scope("opaque", "g", 0)
    \/ p_bit_list("q")
    \/ p_opaque
    \/ nstmt < MaxTypeStmts /\ \E prim \in TypePrims : p_unitary_op_0(Exp0, prim)
    \/ nstmt < MaxTypeStmts /\ \E a \in TypePrims, b \in TypePrims : p_unitary_op_1(a, b)
    \/ nstmt < MaxTypeStmts /\ \E bits \in TypeLists : p_unitary_op_2(Id("g"), bits)
    \/ nstmt < MaxTypeStmts /\ \E a \in TypePrims, b \in TypePrims : p_measure(a, b)
    \/ nstmt < MaxTypeStmts /\ \E list \in TypeLists : p_barrier(list)
    \/ nstmt < MaxTypeStmts /\ \E a \in TypePrims : p_reset(a)

SpecType == Init /\ [][NextType]_vars

----------------------------------------------------------------------------
(* Errors: programs with a stray token in front, declarations that may fail,
   and a measurement *)

MaxErrStmts == 3   \* statements started over all calls of parse (error programs)

NextErr ==
    \/ parse_debug("False")
    \/ Run
    \/ p_error_token
    \/ parse_uncaught
    \/ nstmt < MaxErrStmts /\ \E n \in 0..1 : p_qreg_decl("q", n)
    \/ nstmt < MaxErrStmts /\ p_creg_decl("c", 1)
    \/ nstmt < MaxErrStmts /\ \E a \in {Id("q"), Id("c")} : p_measure(a, Id("c"))

SpecErr == Init /\ [][NextErr]_vars

----------------------------------------------------------------------------
(* Whole programs: a version header with one of several literals, register
   declarations and a measurement, parsed by one call of parse *)

MaxProgStmts == 3   \* statements of the program
Versions == {10, 20, 21}

NextProg ==
    \/ parse_debug("False")
    \/ RunOnce
    \/ nstmt < MaxProgStmts /\ \E v \in Versions : p_magic(v)
    \/ nstmt < MaxProgStmts /\ p_magic_0
    \/ nstmt < MaxProgStmts /\ p_qreg_decl("q", 1)
    \/ nstmt < MaxProgStmts /\ p_creg_decl("c", 1)
    \/ nstmt < MaxProgStmts /\ p_measure(Id("q"), Id("c"))

SpecProg == Init /\ [][NextProg]_vars

----------------------------------------------------------------------------
(* Columns: p_error's call of find_column on an input text and the offset of a
   token in it. Here lexer.data is the text, character by character, and
   lexer.pos the token's lexpos, counted from 0 as in Python. *)

MaxText == 5   \* characters of an input text

Chars == {"x", "\n"}
RECURSIVE Texts(_)
Texts(n) ==
    IF n = 0 THEN {<<>>}
    ELSE Texts(n - 1) \cup {Append(t, c) : t \in {u \in Texts(n - 1) : Len(u) = n - 1}, c \in Chars}

\* str.rfind(ch, start, end): the greatest index in start .. end - 1 holding ch, or -1
rfind(input, ch, start, end) ==
    LET hits == {k \in start..(end - 1) : k < Len(input) /\ input[k + 1] = ch}
    IN IF hits = {} THEN -1 ELSE CHOOSE k \in hits : \A h \in hits : h <= k

find_column(input, lexpos) ==
    LET found == rfind(input, "\n", 0, lexpos)
        last_cr == IF found < 0 THEN 0 ELSE found
    IN (lexpos - last_cr) + 1

Column(col) == Node("column", "", col, <<>>)

\* p_error(token): col = self.find_column(self.lexer.data, program)
p_error_column ==
    /\ Parsing /\ p0 = None
    /\ p0' = Column(find_column(lexer.data, lexer.pos))
    /\ UNCHANGED <<lexer, symstack, parseDeb, api, reply, status, err, global_symtab, current_symtab,
                   symbols, ctx, decl, ifs, program, qasm, nstmt>>

\* a parse under way on a text, with a token (a character other than a line
\* break) at lexpos that the grammar rejects
InitCol ==
    /\ parseDeb = "False"
    /\ status = "parsing"
    /\ err = "none"
    /\ global_symtab = EmptyTab
    /\ current_symtab = GlobalRef
    /\ symbols = <<>>
    /\ ctx = "top"
    /\ decl = NoDecl
    /\ ifs = <<>>
    /\ p0 = None
    /\ program = <<>>
    /\ qasm = NoQasm
    /\ nstmt = 0
    /\ \E text \in Texts(MaxText) : \E lexpos \in 0..(Len(text) - 1) :
           /\ text[lexpos + 1] # "\n"
           /\ lexer = Input(text, lexpos)
    /\ symstack = <<>>
    /\ api = NoApi
    /\ reply = NoReply

NextCol == p_error_column

SpecCol == InitCol /\ [][NextCol]_vars

----------------------------------------------------------------------------
(* Order of checks: programs that declare qreg q and a gate g with one argument
   and one or two bits, then call g at top level with a callee, arguments and
   operands each of which may break a rule *)

MaxOrderStmts == 3   \* statements of the program

OrderCallees == {Id("g"), Id("q"), Id("h")}
OrderArgs == {ExpressionList(<<IntNode(0)>>), ExpressionList(<<Id("h")>>),
              ExpressionList(<<IntNode(0), IntNode(0)>>)}
OrderPrims == {IndexedId("q", 0), IndexedId("q", 1), IndexedId("q", MaxSize), Id("g"), Id("r")}
OrderBits == {PrimaryList(l) : l \in Seqs(OrderPrims)}

NextOrder ==
    \/ parse_debug("False")
    \/ RunOnce
    \/ nstmt < MaxOrderStmts /\ p_qreg_decl("q", MaxSize)
    \/ nstmt < MaxOrderStmts /\ p_gate_scope("gate", "g", 2)
    \/ p_gate_id_list("c")
    \/ \E name \in {"q", "r"} : p_bit_list(name)
    \/ p_gate_decl
    \/ nstmt < MaxOrderStmts /\ \E id \in OrderCallees, exps \in OrderArgs, bits \in OrderBits :
            p_unitary_op_4(id, exps, bits)

SpecOrder == Init /\ [][NextOrder]_vars

----------------------------------------------------------------------------
(* Recursion and forward calls: programs that declare qreg q and gates g and h
   whose bodies call g or h, and call them at top level *)

MaxRecStmts == 3   \* statements started over all calls of parse (recursion programs)

RecCallees == {Id("g"), Id("h")}

NextRec ==
    \/ parse_debug("False")
    \/ Run
    \/ nstmt < MaxRecStmts /\ p_qreg_decl("q", 1)
    \/ nstmt < MaxRecStmts /\ \E name \in {"g", "h"} : p_gate_scope("gate", name, 0)
    \/ p_bit_list("q")
    \/ p_gate_decl
    \/ \E id \in RecCallees : p_gate_op_2(id, IdList(<<Id("q")>>))
    \/ nstmt < MaxRecStmts /\ \E id \in RecCallees :
            p_unitary_op_2(id, PrimaryList(<<IndexedId("q", 0)>>))

SpecRec == Init /\ [][NextRec]_vars

----------------------------------------------------------------------------
(* The fake API classes of the job-state tests: BaseFakeAPI and its subclasses *)

MaxState == 3   \* progress is followed while _state is below this value

absent == "absent"
Status(st) == Dict(st, absent, absent, absent)

\* the class attribute _job_status each class defines or inherits
InheritsJobStatus == {"BaseFakeAPI", "RejectingJobAPI", "UnavailableRunAPI"}
ApiClasses ==
    InheritsJobStatus \cup
    {"UnknownStatusAPI", "ValidatingAPI", "ErrorWhileValidatingAPI", "NonQueuedAPI",
     "ErrorWhileCreatingAPI", "ErrorWhileRunningAPI", "QueuedAPI", "ThrowingAPI",
     "ThrowingNonJobRelatedErrorAPI", "ThrowingGetJobAPI", "CancellableAPI",
     "NonCancellableAPI", "ErroredCancellationAPI"}

_job_status(cls) ==
    CASE cls = "UnknownStatusAPI" -> <<Status("UNKNOWN")>>
      [] cls = "ValidatingAPI" -> <<Status("VALIDATING"), Status("RUNNING")>>
      [] cls = "ErrorWhileValidatingAPI" ->
            <<Status("VALIDATING"), Status("ERROR_VALIDATING_JOB")>>
      [] cls = "NonQueuedAPI" ->
            <<Status("RUNNING"), Dict("COMPLETED", absent, absent, "[]")>>
      [] cls = "ErrorWhileCreatingAPI" -> <<Status("ERROR_CREATING_JOB")>>
      [] cls = "ErrorWhileRunningAPI" ->
            <<Status("RUNNING"), Dict("ERROR_RUNNING_JOB", "Error running job", absent, absent)>>
      [] cls = "QueuedAPI" ->
            <<Dict("RUNNING", absent, "PENDING_IN_QUEUE", absent), Status("RUNNING"),
              Status("COMPLETED")>>
      [] cls = "ThrowingAPI" -> <<Status("RUNNING")>>
      [] cls = "ThrowingNonJobRelatedErrorAPI" -> <<Status("COMPLETED")>>
      [] cls = "ThrowingGetJobAPI" -> <<Status("COMPLETED")>>
      [] cls = "CancellableAPI" -> <<Status("RUNNING"), Status("CANCELLED")>>
      [] cls \in {"NonCancellableAPI", "ErroredCancellationAPI"} ->
            <<Status("RUNNING"), Status("RUNNING"), Status("RUNNING")>>
      [] OTHER -> <<>>

JobIds == {"", "TEST_ID"}
JobIdError == Dict("Error", "Job ID not specified", absent, absent)

\* self._job_status[self._state]: the entry, or IndexError (_state is never negative)
Subscript(a, call, job_id) ==
    IF a._state < Len(_job_status(a.cls))
    THEN Reply(call, job_id, "none", _job_status(a.cls)[a._state + 1])
    ELSE Reply(call, job_id, "IndexError", NoDict)

\* BaseFakeAPI.get_job
base_get_job(a, call, job_id) ==
    IF job_id = "" THEN Reply(call, job_id, "none", JobIdError)
    ELSE Subscript(a, call, job_id)

\* get_job as the object's class defines it: the object after the call and the outcome
get_job_of(a, call, job_id) ==
    CASE a.cls \in {"ThrowingAPI", "ThrowingGetJobAPI"} ->
            <<a, Reply(call, job_id, "ApiError", NoDict)>>
      [] a.cls = "ThrowingNonJobRelatedErrorAPI" ->
            IF a._number_of_exceptions_to_throw # 0
            THEN <<[a EXCEPT !._number_of_exceptions_to_throw = @ - 1],
                   Reply(call, job_id, "ApiError", NoDict)>>
            ELSE <<a, base_get_job(a, call, job_id)>>
      [] OTHER -> <<a, base_get_job(a, call, job_id)>>

\* the summary get_status_job builds: the keys status, error and infoQueue
Summary(r) ==
    IF r.raised = "none" THEN [r EXCEPT !.value.qasms = absent] ELSE r

ApiFrame ==
    UNCHANGED <<parseDeb, status, err, global_symtab, current_symtab, symbols, ctx, decl, ifs,
                p0, program, qasm, nstmt, lexer, symstack>>

\* api = SomeAPI(): BaseFakeAPI.__init__, and ThrowingNonJobRelatedErrorAPI.__init__
\* with its errors_before_success
__init__(cls, errors_before_success) ==
    /\ api' = FakeAPI(cls, 0,
                      IF cls = "ThrowingNonJobRelatedErrorAPI" THEN errors_before_success ELSE 0)
    /\ reply' = NoReply
    /\ ApiFrame

get_job(job_id) ==
    /\ api # NoApi
    /\ api' = get_job_of(api, "get_job", job_id)[1]
    /\ reply' = get_job_of(api, "get_job", job_id)[2]
    /\ ApiFrame

get_status_job(job_id) ==
    /\ api # NoApi
    /\ IF api.cls = "ThrowingGetJobAPI"
       THEN /\ api' = api
            /\ reply' = Subscript(api, "get_status_job", job_id)
       ELSE /\ api' = get_job_of(api, "get_status_job", job_id)[1]
            /\ reply' = Summary(get_job_of(api, "get_status_job", job_id)[2])
    /\ ApiFrame

NoMoreStates(a) == a._state = Len(_job_status(a.cls)) - 1

progress ==
    /\ api # NoApi /\ api._state < MaxState
    /\ IF NoMoreStates(api)
       THEN /\ reply' = Reply("progress", "", "NoMoreStatesError", NoDict)
            /\ api' = api
       ELSE /\ api' = [api EXCEPT !._state = @ + 1]
            /\ reply' = Reply("progress", "", "none", NoDict)
    /\ ApiFrame

NextApi ==
    \/ \E cls \in ApiClasses, n \in 0..2 : __init__(cls, n)
    \/ \E job_id \in JobIds : get_job(job_id)
    \/ \E job_id \in JobIds : get_status_job(job_id)
    \/ progress

SpecApi == Init /\ [][NextApi]_vars

----------------------------------------------------------------------------
(* Declarations and the parser's life: C1 - C3 *)

DeclTypes == {"qreg", "creg", "gate", "opaque"}

\* this step reduces a declaration production (p_qreg_decl, p_creg_decl,
\* p_gate_decl_*, p_opaque_*): program[0] becomes the declaration's node
DeclStep == p0' # p0 /\ p0'.type \in DeclTypes

\* the dict update_symtab looks the declared name up in: the current scope, which for
\* a gate or opaque is the scope pop_scope returns to
TargetTab == IF ctx = "top" THEN Cur(Here) ELSE Cur(pop_scope(Here))

\* the check of the production that raises before update_symtab is reached
EarlierCheck(node, form) ==
    IF node.type \in {"qreg", "creg"}
    THEN FirstErr(<< IF node.name \in external_functions THEN "ReservedName" ELSE "ok",
                     IF node.index = 0 THEN "SizeNotPositive" ELSE "ok" >>)
    ELSE IF decl_reserved_checked(node.type, form) /\ node.name \in external_functions
         THEN "ReservedName" ELSE "ok"

AtParseStart ==
    Parsing /\ ctx = "top" /\ p0 = None /\ program = <<>> /\ ifs = <<>>

\* C2 (as stated): every call of parse starts from an empty symbol table and an empty
\* scope stack, with the global scope as the current scope.
C2_FreshTablesPerParse ==
    AtParseStart => /\ global_symtab = EmptyTab
                    /\ current_symtab = GlobalRef
                    /\ symbols = <<>>

\* C3 (as stated): parse on a parser on which parse_debug was never called does not
\* fail for a reason unrelated to its input.
C3_ParseWithoutParseDebug ==
    parseDeb = "unset" => ~(status = "raised" /\ err = "AttributeError")

----------------------------------------------------------------------------
(* Claims about gate calls (SpecCall) *)

\* the last reduction built a call of a name bound to a gate or opaque
LastCall ==
    /\ p0.type = "custom_unitary"
    /\ global_symtab[p0.name].type \in {"gate", "opaque"}
Callee == global_symtab[p0.name]
CallBitList == p0.children[Len(p0.children)]
CallHasArgs == Len(p0.children) = 3
CallArgList == p0.children[2]
ArityErrors == {"ArityBits", "ArityArgs", "ArityNoArgs"}

\* C4: a call of a globally declared gate or opaque g, at top level or in a
\* gate body, fails with the bit-list arity error when the number of entries
\* of its bit list differs from g's declared number of bits, and has passed
\* that check when the two are equal (a whole register is one entry).
C4_BitListArity ==
    LastCall =>
        IF size(CallBitList) # Callee.n_bits
        THEN status = "raised" /\ err = "ArityBits"
        ELSE err # "ArityBits"

\* a whole register q[MaxSize] passed as the one bit of a one-bit gate: accepted
C4_Witness ==
    /\ LastCall /\ status = "parsing" /\ ctx = "top"
    /\ CallBitList.children = <<Id("q")>>
    /\ global_symtab["q"].index = MaxSize
    /\ Callee.n_bits = 1

\* the argument count the call form must meet
ArgsFit ==
    IF CallHasArgs THEN size(CallArgList) = Callee.n_args ELSE Callee.n_args = 0

\* C5: a call of a declared gate or opaque g is accepted only if its argument
\* list has g's declared argument count or, when it has no argument list, g
\* declares no arguments; every other call fails with an arity error.
C5_ArgListArity ==
    LastCall =>
        /\ status # "raised" => ArgsFit
        /\ ~ArgsFit => status = "raised" /\ err \in ArityErrors
        /\ (~ArgsFit /\ size(CallBitList) = Callee.n_bits) =>
                err = (IF CallHasArgs THEN "ArityArgs" ELSE "ArityNoArgs")

\* a call without an argument list of a gate declared with arguments: rejected
C5_Witness ==
    /\ LastCall /\ status = "raised" /\ err = "ArityNoArgs"
    /\ ~CallHasArgs /\ Callee.n_args > 0

----------------------------------------------------------------------------
(* Claims about operands (SpecBits) *)

IsReg(name) == global_symtab[name].type \in {"qreg", "creg"}
HasRepeat(seq) == Cardinality(Range(seq)) # Len(seq)

\* the last reduction built a top-level CX over in-range bits of one declared qreg
TopCnotOneReg ==
    /\ p0.type = "cnot" /\ ctx = "top"
    /\ p0.children[1].type = "indexed_id" /\ p0.children[2].type = "indexed_id"
    /\ p0.children[1].name = p0.children[2].name
    /\ global_symtab[p0.children[1].name].type = "qreg"
    /\ \A i \in 1..2 : p0.children[i].index < global_symtab[p0.children[1].name].index

\* the last reduction built a CX of a gate body over declared bit parameters
BodyCnotOverBits ==
    /\ p0.type = "cnot" /\ ctx = "body"
    /\ \A i \in 1..2 : /\ Cur(Here)[p0.children[i].name].type = "id"
                         /\ Cur(Here)[p0.children[i].name].is_bit

\* C6: for a declared qreg q of size n and i, j in [0, n), the top-level CX q[i], q[j]
\* fails with the duplicate-operand error exactly when i = j and is accepted
\* otherwise; in a gate body CX a, b over declared bit parameters fails exactly
\* when a and b are the same name.
C6_CnotDistinct ==
    /\ TopCnotOneReg =>
          IF p0.children[1].index = p0.children[2].index
          THEN status = "raised" /\ err = "DuplicateOperand"
          ELSE status = "parsing" /\ err = "none"
    /\ BodyCnotOverBits =>
          IF p0.children[1].name = p0.children[2].name
          THEN status = "raised" /\ err = "DuplicateOperand"
          ELSE status = "parsing" /\ err = "none"

\* CX q[0], q[MaxSize - 1] on a qreg of MaxSize bits was accepted
C6_Witness ==
    /\ TopCnotOneReg /\ status = "parsing"
    /\ p0.children[1].index = 0 /\ p0.children[2].index = MaxSize - 1
    /\ global_symtab[p0.children[1].name].index = MaxSize

\* the operand nodes of the operation the last reduction built
OperandList ==
    IF p0.type \in {"cnot", "measure", "reset"} THEN p0.children
    ELSE IF p0.type = "universal_unitary" THEN <<p0.children[2]>>
    ELSE IF p0.type \in {"custom_unitary", "barrier"}
         THEN p0.children[Len(p0.children)].children
    ELSE <<>>

\* the pairs the operand stands for: a register declared with n bits stands for
\* (q, 0) .. (q, n - 1), an indexed bit for itself, a gate's bit parameter for (x, -1)
DeclaredPairs(o) ==
    IF o.type = "indexed_id" THEN << <<o.name, o.index>> >>
    ELSE IF ctx = "top" /\ IsReg(o.name)
         THEN [k \in 1..global_symtab[o.name].index |-> <<o.name, k - 1>>]
    ELSE << <<o.name, -1>> >>

\* the distinctness check was reached: every earlier check of the production passed
DistinctChecked ==
    /\ p0.type \in {"cnot", "custom_unitary", "barrier"}
    /\ status = "parsing" \/ (status = "raised" /\ err = "DuplicateOperand")

\* C7 (as stated): an operand list of CX, a gate call or a barrier is rejected by
\* verify_distinct exactly when the pairs its operands stand for (a register of
\* declared size n for its n bits) have a repeat.
C7_DistinctOperands ==
    DistinctChecked =>
        (err = "DuplicateOperand"
            <=> HasRepeat(Flatten([i \in 1..Len(OperandList) |->
                                      DeclaredPairs(OperandList[i])])))

\* the last reduction built a top-level operation
TopOp ==
    /\ ctx = "top"
    /\ p0.type \in {"universal_unitary", "cnot", "custom_unitary", "measure",
                     "reset", "barrier"}

\* the register type the production expects of its i-th operand
ExpectedType(i) == IF p0.type = "measure" /\ i = 2 THEN "creg" ELSE "qreg"

\* operand i names a declared register of the expected type
RegOperand(i) == global_symtab[OperandList[i].name].type = ExpectedType(i)

\* operand i is an indexed reference q[k] with k >= n, n the declared size of q
OutOfRange(i) ==
    /\ OperandList[i].type = "indexed_id"
    /\ RegOperand(i)
    /\ OperandList[i].index >= global_symtab[OperandList[i].name].index

GateCallErrors == {"UndeclaredGate", "NotAGate"} \cup ArityErrors

\* C8: an indexed reference q[k] to a register declared with size n, used as an
\* operand of a top-level U, CX, gate call, measure, reset or barrier, is never
\* rejected by the bound check when 0 <= k <= n - 1, and makes the operation fail
\* when k >= n: with the index-out-of-range error when the operands are all
\* declared registers of the expected type (and the callee check passed).
C8_IndexBound ==
    TopOp =>
        LET I == 1..Len(OperandList)
        IN /\ err = "IndexOutOfRange" => \E i \in I : OutOfRange(i)
           /\ (\E i \in I : OutOfRange(i)) => status = "raised"
           /\ ( /\ \E i \in I : OutOfRange(i)
                /\ \A i \in I : RegOperand(i)
                /\ err \notin GateCallErrors ) => err = "IndexOutOfRange"

\* measure q[n - 1] -> c[1] with q of size n = MaxSize and c of size 1: the qubit
\* index n - 1 passed the bound check, the bit index 1 = size of c was rejected
C8_Witness ==
    /\ TopOp /\ p0.type = "measure"
    /\ status = "raised" /\ err = "IndexOutOfRange"
    /\ OperandList[1] = IndexedId("q", MaxSize - 1)
    /\ global_symtab["q"] = RegSym("qreg", MaxSize)
    /\ OperandList[2] = IndexedId("c", 1)
    /\ global_symtab["c"] = RegSym("creg", 1)

----------------------------------------------------------------------------
(* Claims about conditionals (SpecIf) *)

\* this step reduces if : IF '(' id MATCHES NNINTEGER ')' quantum_op
IfStep == status = "parsing" /\ ifs # <<>> /\ ifs' = Tail(ifs)

\* C9: if (id == n) op is rejected when op is itself an if statement or a barrier,
\* and otherwise accepted, building an If node with children id, Int n, op.
C9_IfGuardedOp ==
    [][IfStep =>
          IF p0.type \in {"if", "barrier"}
          THEN /\ status' = "raised"
               /\ err' = (IF p0.type = "if" THEN "NestedIf" ELSE "BarrierInIf")
          ELSE /\ status' = "parsing" /\ err' = "none"
               /\ p0' = List("if", <<Id(Head(ifs).id), IntNode(Head(ifs).n), p0>>)]_vars

\* if (c == 1) if (c == 1) measure q[0] -> c[0]; was rejected as a nested if
C9_Witness ==
    /\ status = "raised" /\ err = "NestedIf"
    /\ p0.type = "if" /\ p0.children[3].type = "measure"

----------------------------------------------------------------------------
(* Claims about expressions (SpecExpr) *)

\* the expression list of lexer.data has been reduced
ExpReduced ==
    /\ status = "parsing" /\ ctx = "exp"
    /\ p0.type = "expression_list" /\ lexer.pos > Len(lexer.data)

Operand(tok) == IntNode(tok.index)

\* C10 (as stated): + and - bind loosest, * and / tighter, ^ tightest: for all
\* operands a, b, c, a+b*c is built as BinaryOp(+, a, BinaryOp(*, b, c)) and
\* a*b^c as BinaryOp(*, a, BinaryOp(^, b, c)).
C10_Precedence ==
    ExpReduced =>
        \A a \in Operands, b \in Operands, c \in Operands :
            /\ lexer.data = <<a, Tok("+", "+", -1), b, Tok("*", "*", -1), c>>
                  => p0.children[1] =
                        BinaryOp("+", Operand(a), BinaryOp("*", Operand(b), Operand(c)))
            /\ lexer.data = <<a, Tok("*", "*", -1), b, Tok("^", "^", -1), c>>
                  => p0.children[1] =
                        BinaryOp("*", Operand(a), BinaryOp("^", Operand(b), Operand(c)))

\* the token of a binary operator
OpTok(op) == Tok(op, op, -1)

\* C11: every binary operator is left-associative among operators of its own
\* level: for all operands a, b, c, a^b^c is built as BinaryOp(^, BinaryOp(^, a, b), c),
\* a-b-c as BinaryOp(-, BinaryOp(-, a, b), c), a/b/c as BinaryOp(/, BinaryOp(/, a, b), c)
\* (and likewise a+b+c and a*b*c).
C11_LeftAssociative ==
    ExpReduced =>
        \A a \in Operands, b \in Operands, c \in Operands :
            \A op \in {"^", "-", "/", "+", "*"} :
                lexer.data = <<a, OpTok(op), b, OpTok(op), c>>
                  => p0.children[1] =
                        BinaryOp(op, BinaryOp(op, Operand(a), Operand(b)), Operand(c))

\* 0 ^ 1 ^ 2 has been reduced
C11_Witness ==
    /\ ExpReduced
    /\ lexer.data = <<Tok("NNINTEGER", "", 0), OpTok("^"), Tok("NNINTEGER", "", 1),
                      OpTok("^"), Tok("NNINTEGER", "", 2)>>

----------------------------------------------------------------------------
(* Claims about external calls (SpecExt) *)

\* the parser is about to reduce unary : id '(' expression ')'
AtCall ==
    /\ status = "parsing" /\ ctx = "exp" /\ symstack # <<>>
    /\ Top.sym = ")" /\ SymAt(1) = "expression" /\ SymAt(2) = "(" /\ SymAt(3) = "id"

\* C12: name(expr) is accepted, and an External node built, exactly when name is
\* one of sin, cos, tan, exp, ln, sqrt; for any other name the parse fails at
\* that reduction, whether or not the name is bound in the current or the
\* global scope.
C12_ExternalWhitelist ==
    [][AtCall =>
          IF ValAt(3).name \in {"sin", "cos", "tan", "exp", "ln", "sqrt"}
          THEN /\ status' = "parsing" /\ err' = "none"
               /\ p0' = List("external", <<ValAt(3), ValAt(1)>>)
          ELSE /\ status' = "raised" /\ err' = "IllegalExternal"]_vars

\* h(..) was rejected inside the body of a gate whose argument parameter is h
C12_Witness ==
    /\ status = "raised" /\ err = "IllegalExternal"
    /\ ValAt(3).name = "h"
    /\ ~current_symtab.glob /\ Has(Cur(Here), "h")

----------------------------------------------------------------------------
(* Claims about gate bodies (SpecBody) *)

\* the last reduction was an operation of a gate body
InGateBody == ctx = "body" /\ decl.type = "gate"
BodyCall == InGateBody /\ p0.type = "custom_unitary"
CalleeErrors == {"UndeclaredGate", "NotAGate"}

\* C13: the callee of a call in a gate body is looked up in the global scope
\* only: the call fails as an undeclared gate exactly when the name has no
\* global entry and as not-a-gate exactly when its global entry is no gate or
\* opaque, whatever the enclosing gate's parameters are called; so a parameter
\* named like a global gate does not hide it, and a name bound only locally is
\* never accepted.
C13_CalleeGlobal ==
    BodyCall =>
        /\ err = "UndeclaredGate" <=> ~Has(global_symtab, p0.name)
        /\ err = "NotAGate" <=> /\ Has(global_symtab, p0.name)
                                /\ global_symtab[p0.name].type \notin {"gate", "opaque"}
        /\ err \in CalleeErrors => status = "raised"
        /\ (Has(Cur(Here), p0.name) /\ ~Has(global_symtab, p0.name)) => status = "raised"

\* h h; accepted in the body of a gate whose bit parameter is h, h being a
\* global gate
C13_Witness ==
    /\ BodyCall /\ status = "parsing"
    /\ p0.name = "h" /\ Has(Cur(Here), "h") /\ Cur(Here)["h"].type = "id"
    /\ global_symtab["h"].type = "gate"

\* the bit operands of the operation last reduced, in the order they are checked
BodyBits ==
    IF p0.type = "universal_unitary" THEN <<p0.children[2]>>
    ELSE IF p0.type = "cnot" THEN p0.children
    ELSE IF p0.type \in {"custom_unitary", "barrier"}
         THEN p0.children[Len(p0.children)].children
    ELSE <<>>
IsOwnBit(id) ==
    /\ Has(Cur(Here), id.name)
    /\ Cur(Here)[id.name].type = "id" /\ Cur(Here)[id.name].is_bit
BadBits == {i \in 1..Len(BodyBits) : ~IsOwnBit(BodyBits[i])}
FirstBad == BodyBits[CHOOSE i \in BadBits : \A k \in BadBits : i <= k]
BodyOp ==
    /\ InGateBody
    /\ p0.type \in {"universal_unitary", "cnot", "custom_unitary", "barrier"}

\* C14: in a gate body an operation of U, CX, a call or a barrier with a bit
\* operand that is not a bit parameter of the enclosing gate fails; unless the
\* call's callee or arity check failed first, the error is the undeclared-bit
\* error when the first such operand is absent from the local scope (a global
\* qreg included) and the not-a-bit error when it is a local argument parameter.
C14_BodyBitOperands ==
    BodyOp =>
        IF BadBits = {}
        THEN err \notin {"UndeclaredBit", "NotABit"}
        ELSE /\ status = "raised"
             /\ \/ p0.type = "custom_unitary" /\ err \in CalleeErrors \cup ArityErrors
                \/ err = IF Has(Cur(Here), FirstBad.name) THEN "NotABit" ELSE "UndeclaredBit"

\* barrier q; rejected as undeclared in the body of a gate without parameter q
\* although q is a global qreg
C14_Witness ==
    /\ BodyOp /\ p0.type = "barrier" /\ err = "UndeclaredBit"
    /\ FirstBad.name = "q" /\ global_symtab["q"].type = "qreg"

\* U(0) c; rejected as not-a-bit where c is an argument parameter
C14_WitnessNotABit ==
    /\ BodyOp /\ p0.type = "universal_unitary" /\ err = "NotABit"
    /\ FirstBad.name = "c" /\ ~Cur(Here)["c"].is_bit

----------------------------------------------------------------------------
(* Claims about scopes and reserved names (Spec) *)

\* gate_scope is reduced: a gate or opaque declaration begins
ScopePushed == Parsing /\ decl = NoDecl /\ decl' # NoDecl
\* p_gate_decl_* / p_opaque_* returned without raising
DeclCompleted == Parsing /\ decl # NoDecl /\ decl' = NoDecl /\ status' = "parsing"

\* C15 (as stated): while a parse runs, the scope stack never holds more than
\* one saved scope; gate_scope saves the global scope and makes an empty local
\* scope current; and when a gate or opaque declaration completes the stack is
\* empty again and the current scope is the global scope, whose earlier
\* entries are unchanged.
C15_ScopeDiscipline ==
    [][/\ status' = "parsing" => Len(symbols') <= 1
       /\ ScopePushed => /\ current_symtab' = LocalRef(EmptyTab)
                         /\ symbols' = <<GlobalRef>>
       /\ DeclCompleted => /\ current_symtab' = GlobalRef
                           /\ symbols' = <<>>
                           /\ \A n \in Names : Has(global_symtab, n) =>
                                  global_symtab'[n] = global_symtab[n]]_vars

\* C16 (as stated): every declaration (qreg, creg, gate and opaque in each of
\* their three forms) whose name is one of sin, cos, tan, exp, ln, sqrt fails
\* with the reserved-name error and leaves the global scope as it was.
C16_ReservedNameRejected ==
    [][(DeclStep /\ p0'.name \in {"sin", "cos", "tan", "exp", "ln", "sqrt"})
          => /\ status' = "raised" /\ err' = "ReservedName"
             /\ global_symtab' = global_symtab]_vars

\* the same for every form but OPAQUE id '(' ')' bit_list
ReservedRejectedButOpaque1 ==
    [][(DeclStep /\ p0'.name \in external_functions /\ ~(p0'.type = "opaque" /\ decl.form = 1))
          => /\ status' = "raised" /\ err' = "ReservedName"
             /\ global_symtab' = global_symtab]_vars

Whitelist == {"sin", "cos", "tan", "exp", "ln", "sqrt"}
NoneBound(tab) == \A n \in Whitelist \cap Names : ~Has(tab, n)

\* C17 (as stated): no entry of the global scope, of the current scope or of a
\* saved scope is named sin, cos, tan, exp, ln or sqrt.
C17_WhitelistNeverBound ==
    /\ NoneBound(global_symtab)
    /\ NoneBound(Cur(Here))
    /\ \A i \in 1..Len(symbols) : NoneBound(Cur(Scope(global_symtab, symbols[i], <<>>)))

\* the two parts of C17, for the global scope and for a gate's local scope
NoReservedGlobal == NoneBound(global_symtab)
NoReservedLocal == current_symtab.glob \/ NoneBound(current_symtab.tab)

----------------------------------------------------------------------------
(* Claims about argument expressions (SpecArgs) *)

\* the last reduction built U or a call with an expression list
ArgOp ==
    \/ p0.type = "universal_unitary"
    \/ p0.type = "custom_unitary" /\ Len(p0.children) = 3
ArgExps == IF p0.type = "universal_unitary" THEN p0.children[1] ELSE p0.children[2]

\* the names of the identifiers occurring at any depth of a node
RECURSIVE Idents(_)
Idents(n) ==
    IF n.type = "id" THEN {n.name}
    ELSE UNION {Idents(n.children[i]) : i \in 1..Len(n.children)}

\* the scope the claim names: global at top level, the gate's local scope in a body
ApplicableScope == IF ctx = "top" THEN global_symtab ELSE Cur(Here)
Unresolved ==
    {n \in Idents(ArgExps) : n \notin Whitelist /\ ~Has(ApplicableScope, n)}
BeforeExpList ==
    {"UndeclaredSymbol", "TypeMismatch", "IndexOutOfRange", "UndeclaredGate", "NotAGate",
     "ArityBits", "ArityArgs", "ArityNoArgs", "UndeclaredBit", "NotABit"}

\* C18 (as stated): U or a parametrized call whose checks before verify_exp_list
\* passed fails with the argument error exactly when some identifier, at any
\* depth of its expression list, is neither whitelisted nor bound in the global
\* scope (at top level) or in the gate's local scope (in a gate body).
C18_ExpListResolved ==
    (ArgOp /\ err \notin BeforeExpList) =>
        (status = "raised" /\ err = "UndeclaredArgument") <=> Unresolved # {}

----------------------------------------------------------------------------
(* Declare-before-use (SpecIf) *)

\* the names of the id and indexed_id nodes occurring at any depth of a node
RECURSIVE UsedNames(_)
UsedNames(n) ==
    IF n.type \in {"id", "indexed_id"} THEN {n.name}
    ELSE UNION {UsedNames(n.children[i]) : i \in 1..Len(n.children)}

\* a top-level operation was reduced and accepted
OpAccepted == status = "parsing" /\ ctx = "top" /\ p0.type \in QuantumOps \ {"opaque"}

\* C19 (as stated): every identifier of an accepted top-level operation, the
\* register in the condition of an if included, is bound in the global scope.
C19_DeclareBeforeUse ==
    OpAccepted => \A n \in UsedNames(p0) \ Whitelist : Has(global_symtab, n)

\* the same for the operands and callees only: the operation an if guards,
\* without the register of its condition
OperandsDeclared ==
    OpAccepted =>
        \A n \in UsedNames(IF p0.type = "if" THEN p0.children[3] ELSE p0) \ Whitelist :
            Has(global_symtab, n)

----------------------------------------------------------------------------
(* Claims about operand kinds (SpecType) *)

\* operand i is bound in the global scope to an entry of another kind than expected
Mismatch(i) == Has(global_symtab, OperandList[i].name) /\ ~RegOperand(i)
\* operand i fails verify_reg
BadOperand(i) ==
    \/ ~Has(global_symtab, OperandList[i].name)
    \/ Mismatch(i)
    \/ OutOfRange(i)
BadOperands == {i \in 1..Len(OperandList) : BadOperand(i)}
FirstBadOperand == CHOOSE i \in BadOperands : \A k \in BadOperands : i <= k

\* C20: a top-level U, CX, call, reset, barrier or measure with an operand bound
\* globally to an entry of another kind than the production expects (qreg,
\* or creg for the second operand of measure) fails; the error is the
\* type-mismatch error when that operand is the first to fail verify_reg (and
\* the callee check of a call passed), and the type-mismatch error is raised
\* for no other reason.
C20_TypeMismatch ==
    TopOp =>
        /\ (\E i \in 1..Len(OperandList) : Mismatch(i)) => status = "raised"
        /\ (BadOperands # {} /\ err \notin GateCallErrors) =>
               (err = "TypeMismatch" <=> Mismatch(FirstBadOperand))
        /\ BadOperands = {} => err # "TypeMismatch"

\* measure q[0] -> q[0] was rejected: a qreg where a creg is required
C20_Witness ==
    /\ TopOp /\ p0.type = "measure"
    /\ status = "raised" /\ err = "TypeMismatch"
    /\ OperandList = <<IndexedId("q", 0), IndexedId("q", 0)>>
    /\ global_symtab["q"].type = "qreg"

\* reset g was rejected: an opaque name where a qreg is required
C20_WitnessGate ==
    /\ TopOp /\ p0.type = "reset"
    /\ status = "raised" /\ err = "TypeMismatch"
    /\ OperandList = <<Id("g")>> /\ global_symtab["g"].type = "opaque"

----------------------------------------------------------------------------
(* Claims about failure (SpecErr) *)

\* C21 (as stated): a call of parse in which an error was detected does not
\* return: it ends raised, and parsing does not go on after the error.
C21_FailFast ==
    [][(status = "parsing" /\ err # "none") => status' = "raised"]_vars

\* a call of parse returned although p_error had reported a token
ReturnedAfterError == status = "returned" /\ err = "SyntaxError"

----------------------------------------------------------------------------
(* Claims about the content of errors *)

\* a call of parse ended with a QasmError
ParseFailed == status = "raised" /\ err \notin {"AttributeError", "IllegalDebugValue"}

\* C22 (as stated): every error a call of parse raises carries the source line
\* and the file name of the offending construct.
C22_ErrorsLocated == ParseFailed => err \in located_errors

\* every error raised is one of the kinds listed with or without a location
ErrorsClassified == ParseFailed => err \in located_errors \cup unlocated_errors

----------------------------------------------------------------------------
(* Claims about whole programs (SpecProg) *)

\* C23 (as stated): a version header is accepted only with the literal 2.0;
\* with any other real literal, or malformed, it makes the parse fail.
C23_VersionLiteral ==
    [][(p0' # p0 /\ p0'.type = "magic" /\ p0'.children[1].index # 20)
          => status' = "raised"]_vars

\* a malformed header (MAGIC followed by anything but a REAL) fails
MalformedHeaderFails == err = "InvalidMagic" => status = "raised"

\* C25: each accepted statement or declaration is appended to the end of the
\* program's children; when parse returns, the root's children are these, one
\* per statement started, at least one; a parse of no statement ends only
\* with the end-of-input error.
C25_ProgramChildren ==
    [][/\ (status = "parsing" /\ status' = "parsing" /\ program' # program)
           => (p0 # None /\ program' = Append(program, p0.type))
       /\ (status = "parsing" /\ status' = "returned")
           => /\ qasm'.children = program
              /\ Len(program) = nstmt /\ nstmt >= 1
       /\ (status = "parsing" /\ nstmt = 0 /\ nstmt' = 0 /\ status' # "parsing")
           => (status' = "raised" /\ err' = "EndOfFile")]_vars

\* a program of three statements of different kinds was returned in source order
C25_Witness ==
    /\ status = "returned"
    /\ qasm.children = <<"magic", "qreg", "creg">>

\* the empty input was rejected at its end
EmptyInputRejected == status = "raised" /\ err = "EndOfFile" /\ nstmt = 0

----------------------------------------------------------------------------
(* Claims about columns (SpecCol) *)

\* the index of the line break before the token, or -1 on the first line
LineBreakBefore ==
    LET breaks == {k \in 0..(lexer.pos - 1) : lexer.data[k + 1] = "\n"}
    IN IF breaks = {} THEN -1 ELSE CHOOSE k \in breaks : \A b \in breaks : b <= k

\* C24 (as stated): the column find_column returns is the token's offset minus
\* the index of the preceding line break, offset + 1 on the first line; so the
\* first character of every line has column 1.
C24_Column ==
    p0.type = "column" => p0.index = lexer.pos - LineBreakBefore

\* on the first line the column is offset + 1
FirstLineColumn ==
    (p0.type = "column" /\ LineBreakBefore = -1) => p0.index = lexer.pos + 1

\* on a later line the column is one more than the claim says
LaterLineColumn ==
    (p0.type = "column" /\ LineBreakBefore >= 0) => p0.index = lexer.pos - LineBreakBefore + 1

----------------------------------------------------------------------------
(* Claims about the order of checks (SpecOrder) *)

\* the last reduction built a top-level call with an argument list
TopArgCall == TopOp /\ p0.type = "custom_unitary" /\ Len(p0.children) = 3

\* the rules a call can break, each stated on the call and the scopes alone
CalleeBad ==
    \/ ~Has(global_symtab, p0.name)
    \/ global_symtab[p0.name].type \notin {"gate", "opaque"}
    \/ global_symtab[p0.name].n_bits # Len(OperandList)
    \/ global_symtab[p0.name].n_args # Len(p0.children[2].children)
OperandsBad == BadOperands # {}
ArgsBad == Unresolved # {}
OperandsRepeat ==
    HasRepeat(Flatten([i \in 1..Len(OperandList) |-> DeclaredPairs(OperandList[i])]))
RegErrors == {"UndeclaredSymbol", "TypeMismatch", "IndexOutOfRange"}

\* C26: a top-level call with arguments reports the callee or arity error when
\* the callee rule is broken; else the operand error (undeclared, type, range)
\* when an operand is bad; else the argument error when an identifier of an
\* argument is unresolved; else the duplicate error when operands repeat; and
\* is accepted when no rule is broken.
C26_CheckOrder ==
    TopArgCall =>
        IF CalleeBad THEN status = "raised" /\ err \in GateCallErrors
        ELSE IF OperandsBad THEN status = "raised" /\ err \in RegErrors
        ELSE IF ArgsBad THEN status = "raised" /\ err = "UndeclaredArgument"
        ELSE IF OperandsRepeat THEN status = "raised" /\ err = "DuplicateOperand"
        ELSE status = "parsing" /\ err = "none"

\* g(h) q[MaxSize], q[MaxSize] with g declared with two bits: the operands are
\* out of range and repeat, the argument is unresolved; the range error is reported
C26_Witness ==
    /\ TopArgCall /\ ~CalleeBad
    /\ Len(OperandList) = 2 /\ OperandList[1] = OperandList[2]
    /\ OperandsBad /\ ArgsBad
    /\ err = "IndexOutOfRange"

----------------------------------------------------------------------------
(* Claims about recursion and forward calls (SpecRec) *)

\* the last reduction built a call, at top level or in a gate body
AnyCall == p0.type = "custom_unitary"
\* the call is in the body of the gate it calls
RecursiveCall == AnyCall /\ ctx = "body" /\ decl.name = p0.name

RecursiveCallAccepted == RecursiveCall /\ status = "parsing"

----------------------------------------------------------------------------
(* Parameter scopes *)

\* a reduction of gate_id_list or bit_list has just entered one more parameter
ParamStep ==
    /\ Parsing /\ ctx = "params"
    /\ decl'.type = decl.type
    /\ decl'.args + decl'.bits = decl.args + decl.bits + 1

Bound(tab) == {n \in Names : Has(tab, n)}

\* C28: while a gate or opaque declaration's lists are reduced the current
\* scope is one local table that holds exactly the parameters entered so far,
\* arguments and bits together, each once. A parameter whose name is already
\* in that table (repeated within either list or across them) fails with the
\* duplicate-declaration error; any other name is accepted, whether or not
\* the global scope binds it, and no parameter changes the global scope.
C28_SharedParameterScope ==
    [][/\ (Parsing /\ ctx = "params")
            => /\ ~current_symtab.glob
               /\ Cardinality(Bound(current_symtab.tab)) = decl.args + decl.bits
       /\ ParamStep
            => LET name == p0'.children[1].name
               IN /\ global_symtab' = global_symtab
                  /\ IF Has(current_symtab.tab, name)
                     THEN status' = "raised" /\ err' = "DuplicateDeclaration"
                     ELSE /\ status' = "parsing"
                          /\ ~current_symtab'.glob
                          /\ Bound(current_symtab'.tab)
                               = Bound(current_symtab.tab) \cup {name}
                          /\ current_symtab'.tab[name].is_bit = (decl'.bits > decl.bits)]_vars

\* an argument and a bit are entered and one of them has the name of a
\* global entry, which is still in place
C28_Witness ==
    /\ Parsing /\ ctx = "params" /\ decl.args >= 1 /\ decl.bits >= 1
    /\ \E n \in Names : /\ Has(current_symtab.tab, n) /\ Has(global_symtab, n)
                        /\ global_symtab[n].type \in {"qreg", "creg", "gate", "opaque"}

\* a bit repeats the name of an argument of the same declaration
RepeatedAcrossLists ==
    /\ status = "raised" /\ err = "DuplicateDeclaration" /\ ctx = "params"
    /\ decl.args = 1 /\ decl.bits = 1

\* a parameter has the name of the gate being declared
OwnNameParameter ==
    /\ Parsing /\ ctx = "params" /\ Has(current_symtab.tab, decl.name)

----------------------------------------------------------------------------
(* Lifetime of a declaration's parameters (SpecArgs) *)

\* the names an operation uses as operands or inside its argument expressions
\* (the callee of a call is not one of them)
OpNames(n) ==
    UNION {UsedNames(n.children[i]) :
              i \in (IF n.type = "custom_unitary" THEN 2 ELSE 1)..Len(n.children)}
        \ Whitelist

\* a gate or opaque declaration has just completed
Completes == decl # NoDecl /\ decl' = NoDecl /\ status' = "parsing"

\* C29 (as stated): when a declaration completes, the scope in force after it
\* binds none of the declaration's parameter names unless the global scope
\* binds that name too; a top-level U or parametrized call that uses a name
\* the global scope does not bind fails, as undeclared unless an earlier check
\* of the statement fails first; and every name an accepted operation of a
\* gate body uses is one of that gate's own parameters.
C29_ParametersLocal ==
    [][/\ Completes
            => \A n \in Bound(current_symtab.tab) :
                   Has(Cur(Here'), n) => Has(global_symtab', n)
       /\ (nstmt' = nstmt + 1 /\ ctx' = "top" /\ ArgOp'
             /\ \E n \in OpNames(p0') : ~Has(global_symtab', n))
            => /\ status' = "raised"
               /\ err' \notin BeforeExpList => err' = "UndeclaredArgument"
       /\ (ctx' = "body" /\ ArgOp' /\ status' = "parsing")
            => /\ ~current_symtab'.glob
               /\ OpNames(p0') \subseteq Bound(current_symtab'.tab)
               /\ Cardinality(Bound(current_symtab'.tab)) = decl'.args + decl'.bits]_vars

\* a top-level U whose argument is a parameter name of an earlier gate is
\* accepted although the global scope does not bind the name
ParameterOutlivesGate ==
    /\ status = "parsing" /\ ctx = "top" /\ p0.type = "universal_unitary"
    /\ "c" \in OpNames(p0) /\ ~Has(global_symtab, "c")

----------------------------------------------------------------------------
(* Claims about the fake API classes (SpecApi) *)

ValidIndex(a) == a._state \in 0..(Len(_job_status(a.cls)) - 1)
LaterState(a) == a._state + 1 < Len(_job_status(a.cls))

\* C30 (as stated): for an object of any fake API class, _state is a valid
\* index of the class's _job_status; get_job with a non-empty job id returns
\* the entry at _state; and progress, called when no later state exists, raises
\* NoMoreStatesError and leaves _state unchanged.
C30_FakeApiStates ==
    [][api' # NoApi =>
         /\ ValidIndex(api')
         /\ (reply'.call = "get_job" /\ reply'.job_id # "")
               => /\ reply'.raised = "none"
                  /\ reply'.value = _job_status(api'.cls)[api'._state + 1]
         /\ (reply'.call = "progress" /\ api # NoApi /\ ~LaterState(api))
               => /\ reply'.raised = "NoMoreStatesError"
                  /\ api'._state = api._state]_vars

\* the same for the classes that define a non-empty _job_status and inherit
\* BaseFakeAPI.get_job
InheritsGetJob ==
    ApiClasses \ {"ThrowingAPI", "ThrowingGetJobAPI", "ThrowingNonJobRelatedErrorAPI"}
FakeApiStatesWhereDefined ==
    [][(api' # NoApi /\ api'.cls \notin InheritsJobStatus) =>
         /\ ValidIndex(api')
         /\ (reply'.call = "get_job" /\ reply'.job_id # "" /\ api'.cls \in InheritsGetJob)
               => /\ reply'.raised = "none"
                  /\ reply'.value = _job_status(api'.cls)[api'._state + 1]
         /\ (reply'.call = "progress" /\ api # NoApi /\ ~LaterState(api))
               => /\ reply'.raised = "NoMoreStatesError"
                  /\ api'._state = api._state]_vars

\* progress has moved an object whose class inherits the empty _job_status
ProgressPastEmpty ==
    /\ api.cls \in InheritsJobStatus /\ api._state > 0
    /\ reply.call = "progress" /\ reply.raised = "none"

=============================================================================
